---- MODULE Spec2Model ----
(***************************************************************************)
(* Verification model of the IP reputation monitor (DNSBL checker):        *)
(*   app/services/dnsbl_checker.py  RateLimiter, DNSBLChecker              *)
(*   app/services/monitoring.py     MonitoringService                      *)
(*   app/api/monitor.py             trigger_monitor_run                    *)
(* Time is counted in ticks; TicksPerSecond ticks make the limiter's       *)
(* 1.0 second window.                                                      *)
(***************************************************************************)
EXTENDS Integers, Sequences, FiniteSets, TLC

\* ------------------------------------------------------------------------
\* Bounds of the model
\* ------------------------------------------------------------------------
TicksPerSecond == 2
MaxTime == 3
NumCallers == 2
MaxCalls == 3
MaxRequests == 1

MaxRecords == 2
CacheTTL == 3
CacheMaxSize == 1
NumCheckTargets == 2
MaxConcurrency == 2
MaxRuns == 2
MaxMonCalls == 2
MaxIntervalRuns == 3

Callers == 1..NumCallers
NoCaller == 0

\* zones: zA is an ordinary list, zS is one of settings.SPAMHAUS_ZONES
ZoneList == <<"zA", "zS">>
Zones == {ZoneList[i] : i \in DOMAIN ZoneList}
SpamhausZones == {"zS"}
None == "None"

VARIABLES
    now,        \* wall clock, in ticks (datetime.now().timestamp())
    requests,   \* RateLimiter.requests: zone -> list of recorded timestamps
    rlLock,     \* RateLimiter._lock: the caller holding it, or NoCaller
    rlpc,       \* caller -> "idle" | "waitlock" | "sleeping" | "resolving"
    rlZone,     \* caller -> zone argument of its acquire call
    rlNow,      \* local variable now of the caller that sleeps in acquire
    rlWake,     \* clock value at which that caller's asyncio.sleep ends
    rlCalls,    \* number of acquire calls made so far
    grants,     \* zone -> real times, within the last second, at which acquire
                \* returned (history)
    czIn,       \* arguments and resolver outcomes of one check_zone call
    czOut,      \* what that check_zone call returned (or raised)
    cbIn,       \* arguments and resolver outcomes of one check_multiple call
    cbOut,      \* what that check_multiple call returned
    cache,      \* DNSBLChecker._cache: TTLCache entries, least recently used first
    qKey,       \* caller -> (target, zone, rrtype) of its _query_dns call
    qResult,    \* what the last _query_dns call that returned has returned
    lastOutcome,\* key -> value stored by the last completed network lookup,
                \* since the last clear_cache and within the TTL (history)
    storedAt,   \* key -> clock value of that store (history)
    isRunning,  \* MonitoringService._is_running
    runs,       \* table monitor_runs: the MonitorRun rows, by id
    results,    \* table check_results: the CheckResult rows, in insertion order
    alerts,     \* table alerts: the Alert rows, in insertion order
    mpc,        \* where the run in progress is suspended: "idle" |
                \* "checking" (await check_multiple) | "posting" (await post)
    mRun,       \* locals of the run in progress: run, targets, zones,
                \* previous_statuses, and the alerts list of _send_webhooks
    mLast,      \* how the last call of run_monitoring has gone so far
    mCalls,     \* number of run_monitoring calls made so far
    bgTasks,    \* background tasks added by trigger_monitor_run, not yet started
    webhookUrl, \* settings.ALERT_WEBHOOK_URL
    lastCheck,  \* the lookup outcomes, scope, snapshot, TXT lookups and cache
                \* hits of the last run that completed its checks (history)
    pOuter,     \* value the semaphore of the check_multiple call in progress
                \* was created with; 0 when no call is in progress
    tpc,        \* target -> where its check_single_target task is: "idle" |
                \* "queued" (on the semaphore) | "checking" | "done"
    tLimit,     \* target -> value the semaphore of its check_target call was
                \* created with; 0 outside check_target
    zpc,        \* (target, zone) -> where the check_single task is: "idle" |
                \* "queued" | "inflight" (inside check_zone) | "done"
    limits      \* the <<outer, inner>> semaphore values that were in force
                \* together in some check_target call so far (history)

rlVars == <<now, requests, rlLock, rlpc, rlZone, rlNow, rlWake, rlCalls, grants>>

ckVars == <<czIn, czOut, cbIn, cbOut>>
qVars == <<cache, qKey, qResult, lastOutcome, storedAt>>

monVars == <<isRunning, runs, results, alerts, mpc, mRun, mLast, mCalls, bgTasks,
             webhookUrl, lastCheck>>

poolVars == <<pOuter, tpc, tLimit, zpc, limits>>

vars == <<rlVars, qVars, ckVars, monVars, poolVars>>
notRL == <<qVars, ckVars, monVars, poolVars>>
notQuery == <<ckVars, monVars, poolVars>>
notCheck == <<rlVars, qVars, monVars, poolVars>>
notMon == <<rlVars, qVars, ckVars, poolVars>>
notPool == <<rlVars, qVars, ckVars, monVars>>

\* ------------------------------------------------------------------------
\* RateLimiter (dnsbl_checker.py 42-66)
\* ------------------------------------------------------------------------
\* [t for t in self.requests[zone] if t > cutoff]
CleanOld(ts, cutoff) == SelectSeq(ts, LAMBDA t : t > cutoff)

RLIdle ==
    /\ now = 0
    /\ requests = [z \in Zones |-> <<>>]
    /\ rlLock = NoCaller
    /\ rlpc = [c \in Callers |-> "idle"]
    /\ rlZone = [c \in Callers |-> "zA"]
    /\ rlNow = 0
    /\ rlWake = 0
    /\ rlCalls = 0
    /\ grants = [z \in Zones |-> <<>>]

\* lines 58-61: the cleaned window of zone z is full, the caller has to sleep
MustSleep(z) ==
    LET cutoff == now - TicksPerSecond
        cleaned == CleanOld(requests[z], cutoff)
    IN  /\ Len(cleaned) >= MaxRequests
        /\ Len(cleaned) > 0
        /\ cleaned[1] - cutoff > 0

\* the lock is free and nobody queues for it: "async with self._lock" is
\* entered without suspending
LockFree == rlLock = NoCaller /\ \A c \in Callers : rlpc[c] # "waitlock"

\* with the lock held, lines 53-62 run up to the sleep, or, when the window
\* has room, to the append of line 66 and the return; after is the place at
\* which the caller goes on once acquire has returned
RLLocked(c, z, after) ==
    LET cutoff == now - TicksPerSecond
        cleaned == CleanOld(requests[z], cutoff)
    IN  IF MustSleep(z)
        THEN /\ requests' = [requests EXCEPT ![z] = cleaned]
             /\ rlLock' = c
             /\ rlpc' = [rlpc EXCEPT ![c] = "sleeping"]
             /\ rlZone' = [rlZone EXCEPT ![c] = z]
             /\ rlNow' = now
             /\ rlWake' = now + (cleaned[1] - cutoff)
             /\ UNCHANGED grants
        ELSE /\ requests' = [requests EXCEPT ![z] = Append(cleaned, now)]
             /\ grants' = [grants EXCEPT ![z] = Append(@, now)]
             /\ rlpc' = [rlpc EXCEPT ![c] = after]
             /\ rlZone' = [rlZone EXCEPT ![c] = "zA"]
             /\ UNCHANGED <<rlLock, rlNow, rlWake>>

\* a coroutine calls acquire(zone): it takes the lock at once when it is
\* free, else it queues on "async with self._lock"
RLCall(c, z, after) ==
    /\ rlpc[c] = "idle"
    /\ rlCalls < MaxCalls
    /\ rlCalls' = rlCalls + 1
    /\ IF LockFree
       THEN RLLocked(c, z, after)
       ELSE /\ rlpc' = [rlpc EXCEPT ![c] = "waitlock"]
            /\ rlZone' = [rlZone EXCEPT ![c] = z]
            /\ UNCHANGED <<requests, rlLock, rlNow, rlWake, grants>>
    /\ UNCHANGED now

\* the lock has been released and a queued caller obtains it
RLEnter(c, after) ==
    /\ rlpc[c] = "waitlock"
    /\ rlLock = NoCaller
    /\ RLLocked(c, rlZone[c], after)
    /\ UNCHANGED <<now, rlCalls>>

\* variant: the lock is not released after the sleep
RLWakeKeepingLock(c, after) ==
    /\ rlpc[c] = "sleeping"
    /\ rlLock = c
    /\ now >= rlWake
    /\ LET z == rlZone[c]
           cutoff == rlNow - TicksPerSecond
       IN  /\ requests' = [requests EXCEPT
                             ![z] = Append(CleanOld(@, cutoff), rlNow)]
           /\ grants' = [grants EXCEPT ![z] = Append(@, now)]
    /\ rlpc' = [rlpc EXCEPT ![c] = after]
    /\ rlZone' = [rlZone EXCEPT ![c] = "zA"]
    /\ UNCHANGED <<rlLock, rlNow, rlWake, now, rlCalls>>

\* the sleep is over: lines 63-66 clean with the cutoff computed before the
\* sleep, append the timestamp read before the sleep, release the lock
RLWake(c, after) ==
    /\ rlpc[c] = "sleeping"
    /\ rlLock = c
    /\ now >= rlWake
    /\ LET z == rlZone[c]
           cutoff == rlNow - TicksPerSecond
       IN  /\ requests' = [requests EXCEPT
                             ![z] = Append(CleanOld(@, cutoff), rlNow)]
           /\ grants' = [grants EXCEPT ![z] = Append(@, now)]
    /\ rlLock' = NoCaller
    /\ rlpc' = [rlpc EXCEPT ![c] = after]
    /\ rlZone' = [rlZone EXCEPT ![c] = "zA"]
    /\ rlNow' = 0
    /\ rlWake' = 0
    /\ UNCHANGED <<now, rlCalls>>

\* real time passes; the history of returns keeps the last second only
ClockTick ==
    /\ now < MaxTime
    /\ now' = now + 1
    /\ grants' = [z \in Zones |-> CleanOld(grants[z], now + 1 - TicksPerSecond)]
    /\ UNCHANGED <<requests, rlLock, rlpc, rlZone, rlNow, rlWake, rlCalls>>

\* the limiter on its own: callers that only acquire
AcquireCall(c, z) == RLCall(c, z, "idle") /\ UNCHANGED notRL
AcquireEnter(c) == RLEnter(c, "idle") /\ UNCHANGED notRL
AcquireWake(c) == RLWake(c, "idle") /\ UNCHANGED notRL
Tick == ClockTick /\ UNCHANGED notRL

RLNext ==
    \/ \E c \in Callers, z \in Zones : AcquireCall(c, z)
    \/ \E c \in Callers : AcquireEnter(c)
    \/ \E c \in Callers : AcquireWake(c)
    \/ Tick

\* ------------------------------------------------------------------------
\* Zone Checker (dnsbl_checker.py 126-257)
\* ------------------------------------------------------------------------
\* addresses are the four octets of the text ipaddress.IPv4Address parses
Addrs == {<<127, 0, 0, 2>>, <<127, 255, 255, 10>>, <<127, 255, 254, 255>>}
Texts == {"txt"}

SeqsUpTo(S, n) == UNION {[1..k -> S] : k \in 0..n}

\* what self.resolver.resolve does: an answer, or one of the exceptions
\* _query_dns names, or an exception that is no DNSException
ErrorKinds == {"NXDOMAIN", "NoAnswer", "Timeout", "DNSException", "OtherException"}
Answer(r) == [kind |-> "answer", records |-> r]
Fails(k) == [kind |-> k, records |-> <<>>]
AOutcomes == {Answer(r) : r \in SeqsUpTo(Addrs, MaxRecords)} \cup {Fails(k) : k \in ErrorKinds}
TxtOutcomes == {Answer(r) : r \in SeqsUpTo(Texts, 1)} \cup {Fails(k) : k \in ErrorKinds}

\* variant: the test looks at the first two octets only (a /16)
IsSpamhausBlockedWide(ip) == ip[1] = 127 /\ ip[2] = 255

\* ip in ipaddress.IPv4Network("127.255.255.0/24")
IsSpamhausBlocked(ip) == ip[1] = 127 /\ ip[2] = 255 /\ ip[3] = 255

\* variant: no "except Timeout" clause, a timeout falls to "except DNSException"
QueryResultNoTimeoutClause(o) ==
    CASE o.kind = "answer"       -> [raised |-> FALSE, status |-> "success", records |-> o.records]
      [] o.kind = "NXDOMAIN"     -> [raised |-> FALSE, status |-> "nxdomain", records |-> <<>>]
      [] o.kind = "NoAnswer"     -> [raised |-> FALSE, status |-> "noanswer", records |-> <<>>]
      [] o.kind = "Timeout"      -> [raised |-> FALSE, status |-> "error", records |-> <<>>]
      [] o.kind = "DNSException" -> [raised |-> FALSE, status |-> "error", records |-> <<>>]
      [] OTHER                   -> [raised |-> TRUE, status |-> "raised", records |-> <<>>]

\* _query_dns on a cache miss: the (status, records) pair it returns for a
\* resolver outcome; an exception that is no DNSException is not caught
QueryResult(o) ==
    CASE o.kind = "answer"       -> [raised |-> FALSE, status |-> "success", records |-> o.records]
      [] o.kind = "NXDOMAIN"     -> [raised |-> FALSE, status |-> "nxdomain", records |-> <<>>]
      [] o.kind = "NoAnswer"     -> [raised |-> FALSE, status |-> "noanswer", records |-> <<>>]
      [] o.kind = "Timeout"      -> [raised |-> FALSE, status |-> "timeout", records |-> <<>>]
      [] o.kind = "DNSException" -> [raised |-> FALSE, status |-> "error", records |-> <<>>]
      [] OTHER                   -> [raised |-> TRUE, status |-> "raised", records |-> <<>>]

\* dataclass CheckResult; raised = TRUE stands for an exception leaving
\* check_zone instead of a result.  History field: txt_asked tells whether
\* the call made the TXT _query_dns call of line 250
MkCheckResult(zone, status, a, txt, reason) ==
    [raised |-> FALSE, zone |-> zone, status |-> status, a_records |-> a,
     txt_records |-> txt, error_reason |-> reason, txt_asked |-> FALSE]
ZoneRaised(zone) ==
    [raised |-> TRUE, zone |-> zone, status |-> "raised", a_records |-> <<>>,
     txt_records |-> <<>>, error_reason |-> None, txt_asked |-> FALSE]

\* variant: the TXT lookup is made before the special-range test
CheckZoneTxtFirst(zone, include_txt, qa, qt) ==
    IF qa.raised THEN ZoneRaised(zone)
    ELSE IF qa.status \in {"nxdomain", "noanswer"}
         THEN MkCheckResult(zone, "not_listed", <<>>, <<>>, None)
    ELSE IF qa.status \in {"timeout", "error"}
         THEN MkCheckResult(zone, "error", <<>>, <<>>, qa.status)
    ELSE IF qa.records = <<>>
         THEN MkCheckResult(zone, "not_listed", <<>>, <<>>, None)
    ELSE IF include_txt /\ qt.raised
         THEN [ZoneRaised(zone) EXCEPT !.txt_asked = TRUE]
    ELSE IF zone \in SpamhausZones
            /\ \E i \in DOMAIN qa.records : IsSpamhausBlocked(qa.records[i])
         THEN [MkCheckResult(zone, "blocked", qa.records, <<>>, "Blocked/limits")
                  EXCEPT !.txt_asked = include_txt]
    ELSE IF include_txt
         THEN [MkCheckResult(zone, "listed", qa.records, qt.records, None)
                  EXCEPT !.txt_asked = TRUE]
    ELSE MkCheckResult(zone, "listed", qa.records, <<>>, None)

\* check_zone(target, zone, include_txt); qa and qt are the outcomes of the
\* primary and of the TXT _query_dns call (qt is used only if it is made)
CheckZone(zone, include_txt, qa, qt) ==
    IF qa.raised THEN ZoneRaised(zone)
    ELSE IF qa.status \in {"nxdomain", "noanswer"}
         THEN MkCheckResult(zone, "not_listed", <<>>, <<>>, None)
    ELSE IF qa.status \in {"timeout", "error"}
         THEN MkCheckResult(zone, "error", <<>>, <<>>, qa.status)
    ELSE IF qa.records = <<>>
         THEN MkCheckResult(zone, "not_listed", <<>>, <<>>, None)
    ELSE IF zone \in SpamhausZones
            /\ \E i \in DOMAIN qa.records : IsSpamhausBlocked(qa.records[i])
         THEN MkCheckResult(zone, "blocked", qa.records, <<>>, "Blocked/limits")
    ELSE IF include_txt
         THEN IF qt.raised THEN [ZoneRaised(zone) EXCEPT !.txt_asked = TRUE]
              ELSE [MkCheckResult(zone, "listed", qa.records, qt.records, None)
                       EXCEPT !.txt_asked = TRUE]
    ELSE MkCheckResult(zone, "listed", qa.records, <<>>, None)

\* ------------------------------------------------------------------------
\* Batch Orchestrator (dnsbl_checker.py 259-388)
\* ------------------------------------------------------------------------
CountWhere(seq, Test(_)) == Cardinality({i \in DOMAIN seq : Test(seq[i])})
MapSeq(seq, F(_)) == [i \in DOMAIN seq |-> F(seq[i])]

ListedEntry(r) == [zone |-> r.zone, a |-> r.a_records, txt |-> r.txt_records]
BlockedEntry(r) == [zone |-> r.zone, a |-> r.a_records, error |-> r.error_reason]
ErrorEntry(r) ==
    [zone |-> r.zone,
     error |-> IF r.error_reason = None THEN "Unknown error" ELSE r.error_reason]

MkTargetResult(t, listed, blocked, errors, n) ==
    [raised |-> FALSE, target |-> t, listed |-> listed, blocked |-> blocked,
     errors |-> errors, not_listed_zones_count |-> n]
TargetRaised(t) ==
    [raised |-> TRUE, target |-> t, listed |-> <<>>, blocked |-> <<>>,
     errors |-> <<>>, not_listed_zones_count |-> 0]

\* variant: a blocked zone is put into the listed bucket as well
AggregateTargetBlockedTwice(t, zr) ==
    IF \E i \in DOMAIN zr : zr[i].raised
    THEN TargetRaised(t)
    ELSE MkTargetResult(t,
            MapSeq(SelectSeq(zr, LAMBDA r : r.status \in {"listed", "blocked"}), ListedEntry),
            MapSeq(SelectSeq(zr, LAMBDA r : r.status = "blocked"), BlockedEntry),
            MapSeq(SelectSeq(zr, LAMBDA r : r.status = "error"), ErrorEntry),
            CountWhere(zr, LAMBDA r : r.status = "not_listed"))

\* check_target, lines 286-327, over the list gather returned: zr[i] is the
\* CheckResult of zones[i] or the exception its task raised.  The loop
\* header "for zone, result in results" unpacks every item before the
\* isinstance test, so an exception item raises TypeError out of
\* check_target and the buckets built so far are lost.
AggregateTarget(t, zr) ==
    IF \E i \in DOMAIN zr : zr[i].raised
    THEN TargetRaised(t)
    ELSE MkTargetResult(t,
            MapSeq(SelectSeq(zr, LAMBDA r : r.status = "listed"), ListedEntry),
            MapSeq(SelectSeq(zr, LAMBDA r : r.status = "blocked"), BlockedEntry),
            MapSeq(SelectSeq(zr, LAMBDA r : r.status = "error"), ErrorEntry),
            CountWhere(zr, LAMBDA r : r.status = "not_listed"))

\* the per-zone results gather collects in check_target (lines 277-284);
\* a(t, z) and x(t, z) are the resolver outcomes of the A and TXT lookups
ZoneResults(t, zones, include_txt, a, x) ==
    [i \in DOMAIN zones |->
        CheckZone(zones[i], include_txt, QueryResult(a[<<t, zones[i]>>]),
                  QueryResult(x[<<t, zones[i]>>]))]

\* the pairs for which a check_multiple call makes the TXT lookup (history)
TxtAsked(targets, zones, include_txt, a, x) ==
    {p \in {<<targets[i], zones[j]>> : i \in DOMAIN targets, j \in DOMAIN zones} :
        \E j \in DOMAIN zones :
            /\ zones[j] = p[2]
            /\ ZoneResults(p[1], zones, include_txt, a, x)[j].txt_asked}

CheckTarget(t, zones, include_txt, a, x) ==
    AggregateTarget(t, ZoneResults(t, zones, include_txt, a, x))

\* variant: gather without return_exceptions, the first failure leaves
\* check_multiple
SummariseTargetsNoCatch(targets, tr) ==
    IF \E i \in DOMAIN tr : tr[i].raised
    THEN [raised |-> TRUE,
          summary |-> [total_ips |-> 0, listed_ips |-> 0, blocked_ips |-> 0,
                       error_ips |-> 0],
          results |-> <<>>]
    ELSE [raised |-> FALSE,
          summary |->
            [total_ips |-> Len(targets),
             listed_ips |-> CountWhere(tr, LAMBDA r : r.listed # <<>>),
             blocked_ips |-> CountWhere(tr, LAMBDA r : r.blocked # <<>>),
             error_ips |-> CountWhere(tr, LAMBDA r : r.errors # <<>>
                                         /\ r.listed = <<>> /\ r.blocked = <<>>)],
          results |-> tr]

\* check_multiple, lines 352-388, over the list gather returned: an item
\* that is an exception is counted in error_ips and left out of results
SummariseTargets(targets, tr) ==
    [raised |-> FALSE,
     summary |->
        [total_ips |-> Len(targets),
         listed_ips |-> CountWhere(tr, LAMBDA r : ~r.raised /\ r.listed # <<>>),
         blocked_ips |-> CountWhere(tr, LAMBDA r : ~r.raised /\ r.blocked # <<>>),
         error_ips |-> CountWhere(tr, LAMBDA r : r.raised
                                     \/ (r.errors # <<>> /\ r.listed = <<>>
                                         /\ r.blocked = <<>>))],
     results |-> SelectSeq(tr, LAMBDA r : ~r.raised)]

\* variant: every identifier with an errors entry counts as an error identifier
CheckMultipleErrorsAny(targets, zones, include_txt, a, x) ==
    LET tr == [i \in DOMAIN targets |-> CheckTarget(targets[i], zones, include_txt, a, x)]
    IN  [SummariseTargets(targets, tr) EXCEPT
            !.summary.error_ips = CountWhere(tr, LAMBDA r : r.raised \/ r.errors # <<>>)]

CheckMultiple(targets, zones, include_txt, a, x) ==
    SummariseTargets(targets,
        [i \in DOMAIN targets |-> CheckTarget(targets[i], zones, include_txt, a, x)])

CkTargets == [i \in 1..NumCheckTargets |-> i]
CkPairs == {<<CkTargets[i], z>> : i \in DOMAIN CkTargets, z \in Zones}
BatchAOutcomes ==
    {Fails("NXDOMAIN"), Fails("Timeout"), Fails("OtherException"),
     Answer(<<<<127, 0, 0, 2>>>>), Answer(<<<<127, 255, 255, 10>>>>)}
BatchTxtOutcomes == {Answer(<<"txt">>), Fails("Timeout"), Fails("OtherException")}

\* cbOut before the call has returned
BatchNotCalled ==
    [raised |-> FALSE,
     summary |-> [total_ips |-> -1, listed_ips |-> 0, blocked_ips |-> 0, error_ips |-> 0],
     results |-> <<>>]

BatchInit ==
    /\ cbIn \in [include_txt : BOOLEAN, a : [CkPairs -> BatchAOutcomes],
                  txt : BatchTxtOutcomes]
    /\ cbOut = BatchNotCalled

CheckMultipleCall ==
    /\ cbOut = BatchNotCalled
    /\ cbOut' = CheckMultiple(CkTargets, ZoneList, cbIn.include_txt, cbIn.a,
                              [p \in CkPairs |-> cbIn.txt])
    /\ UNCHANGED <<cbIn, czIn, czOut, notCheck>>

\* czOut before the call has returned
ZoneNotCalled ==
    [raised |-> FALSE, zone |-> "zA", status |-> "not_called", a_records |-> <<>>,
     txt_records |-> <<>>, error_reason |-> None, txt_asked |-> FALSE]

ZoneIdle ==
    /\ czIn = [zone |-> "zA", include_txt |-> FALSE, a |-> Fails("NXDOMAIN"),
               txt |-> Fails("NXDOMAIN")]
    /\ czOut = ZoneNotCalled
BatchIdle ==
    /\ cbIn = [include_txt |-> FALSE, a |-> [p \in CkPairs |-> Fails("NXDOMAIN")],
               txt |-> Fails("NXDOMAIN")]
    /\ cbOut = BatchNotCalled

ZoneInit ==
    /\ czIn \in [zone : Zones, include_txt : BOOLEAN, a : AOutcomes, txt : TxtOutcomes]
    /\ czOut = ZoneNotCalled

CheckZoneCall ==
    /\ czOut = ZoneNotCalled
    /\ czOut' = CheckZone(czIn.zone, czIn.include_txt,
                          QueryResult(czIn.a), QueryResult(czIn.txt))
    /\ UNCHANGED <<czIn, cbIn, cbOut, notCheck>>

\* ------------------------------------------------------------------------
\* The two task pools of the Batch Orchestrator (dnsbl_checker.py 274-284
\* and 337-350): one semaphore per check_multiple call bounds the
\* check_target calls, one semaphore per check_target call bounds its
\* check_zone calls.  A task is a step at each of its awaits.
\* ------------------------------------------------------------------------
PoolTargets == {CkTargets[i] : i \in DOMAIN CkTargets}
PoolPairs == PoolTargets \X Zones
\* request.concurrency: Field(50, ge=1, le=500)
Concurrencies == 1..MaxConcurrency

Checking == {t \in PoolTargets : tpc[t] = "checking"}
InFlight(t) == {z \in Zones : zpc[<<t, z>>] = "inflight"}

PoolIdle ==
    /\ pOuter = 0
    /\ tpc = [t \in PoolTargets |-> "idle"]
    /\ tLimit = [t \in PoolTargets |-> 0]
    /\ zpc = [p \in PoolPairs |-> "idle"]
    /\ limits = {}

\* lines 338-350: check_multiple(targets, zones, concurrency) creates its
\* semaphore and gathers one check_single_target task per target
PoolCall(concurrency) ==
    /\ pOuter = 0
    /\ pOuter' = concurrency
    /\ tpc' = [t \in PoolTargets |-> "queued"]
    /\ UNCHANGED <<tLimit, zpc, limits, notPool>>

\* variant: check_single_target does not wait for the semaphore
TargetEnterUnbounded(t) ==
    /\ tpc[t] = "queued"
    /\ tpc' = [tpc EXCEPT ![t] = "checking"]
    /\ tLimit' = [tLimit EXCEPT ![t] = pOuter]
    /\ zpc' = [p \in PoolPairs |-> IF p[1] = t THEN "queued" ELSE zpc[p]]
    /\ limits' = limits \cup {<<pOuter, pOuter>>}
    /\ UNCHANGED <<pOuter, notPool>>

\* lines 343-344 and 275-284: a task gets the outer semaphore and calls
\* check_target with the concurrency check_multiple was given; check_target
\* creates its own semaphore with it and gathers one task per zone
TargetEnter(t) ==
    /\ tpc[t] = "queued"
    /\ Cardinality(Checking) < pOuter
    /\ tpc' = [tpc EXCEPT ![t] = "checking"]
    /\ tLimit' = [tLimit EXCEPT ![t] = pOuter]
    /\ zpc' = [p \in PoolPairs |-> IF p[1] = t THEN "queued" ELSE zpc[p]]
    /\ limits' = limits \cup {<<pOuter, pOuter>>}
    /\ UNCHANGED <<pOuter, notPool>>

\* variant: check_single does not wait for the semaphore
ZoneEnterUnbounded(t, z) ==
    /\ zpc[<<t, z>>] = "queued"
    /\ zpc' = [zpc EXCEPT ![<<t, z>>] = "inflight"]
    /\ UNCHANGED <<pOuter, tpc, tLimit, limits, notPool>>

\* lines 278-279: a task gets the inner semaphore and calls check_zone
ZoneEnter(t, z) ==
    /\ zpc[<<t, z>>] = "queued"
    /\ Cardinality(InFlight(t)) < tLimit[t]
    /\ zpc' = [zpc EXCEPT ![<<t, z>>] = "inflight"]
    /\ UNCHANGED <<pOuter, tpc, tLimit, limits, notPool>>

\* lines 279-280: check_zone returns or raises, the semaphore is released
ZoneDone(t, z) ==
    /\ zpc[<<t, z>>] = "inflight"
    /\ zpc' = [zpc EXCEPT ![<<t, z>>] = "done"]
    /\ UNCHANGED <<pOuter, tpc, tLimit, limits, notPool>>

\* lines 284-327 and 344: gather has every zone task's result, check_target
\* returns or raises, the outer semaphore is released
TargetDone(t) ==
    /\ tpc[t] = "checking"
    /\ \A z \in Zones : zpc[<<t, z>>] = "done"
    /\ tpc' = [tpc EXCEPT ![t] = "done"]
    /\ tLimit' = [tLimit EXCEPT ![t] = 0]
    /\ zpc' = [p \in PoolPairs |-> IF p[1] = t THEN "idle" ELSE zpc[p]]
    /\ UNCHANGED <<pOuter, limits, notPool>>

\* lines 347-388: gather has every target task's result, check_multiple
\* returns
PoolReturn ==
    /\ pOuter # 0
    /\ \A t \in PoolTargets : tpc[t] = "done"
    /\ pOuter' = 0
    /\ tpc' = [t \in PoolTargets |-> "idle"]
    /\ UNCHANGED <<tLimit, zpc, limits, notPool>>

\* ------------------------------------------------------------------------
\* Result Cache and _query_dns (dnsbl_checker.py 84-88, 110-124, 142-190)
\* ------------------------------------------------------------------------
QTargets == {"t1", "t2"}
QKeys == {<<t, "zA", "A">> : t \in QTargets}
QOutcomes == {Answer(<<<<127, 0, 0, 2>>>>), Fails("Timeout"), Fails("OtherException")}

\* variant: the key leaves the target out
MakeCacheKeyNoTarget(k) == k[2] \o ":" \o k[3]

\* f"{target}:{zone}:{rrtype}"
MakeCacheKey(k) == k[1] \o ":" \o k[2] \o ":" \o k[3]

\* TTLCache.expire(time): drop the entries whose time is up
CacheExpire(ch, t) == SelectSeq(ch, LAMBDA e : t < e.expires)

\* variant: an entry counts however old it is
CacheHasStale(ch, key, t) == \E i \in DOMAIN ch : ch[i].key = key

\* key in self._cache: present and not expired
CacheHas(ch, key, t) == \E i \in DOMAIN ch : ch[i].key = key /\ t < ch[i].expires

CacheValue(ch, key) == (CHOOSE i \in DOMAIN ch : ch[i].key = key)

\* self._cache.get(key) on a hit marks the entry most recently used
CacheTouch(ch, key) ==
    SelectSeq(ch, LAMBDA e : e.key # key) \o SelectSeq(ch, LAMBDA e : e.key = key)

\* variant: nothing is evicted for a new key
CacheSetGrowing(ch, key, value, t) ==
    LET live == CacheExpire(ch, t)
        others == SelectSeq(live, LAMBDA e : e.key # key)
    IN  Append(others, [key |-> key, value |-> value, expires |-> t + CacheTTL])

\* self._cache[key] = value: expired entries go first, then, for a new key
\* in a full cache, the least recently used entry; the entry is stored as
\* most recently used with a fresh expiry time
CacheSet(ch, key, value, t) ==
    LET live == CacheExpire(ch, t)
        others == SelectSeq(live, LAMBDA e : e.key # key)
        kept == IF Len(others) < Len(live) \/ Len(live) < CacheMaxSize
                THEN others ELSE Tail(others)
    IN  Append(kept, [key |-> key, value |-> value, expires |-> t + CacheTTL])

NoKey == <<"t1", "zA", "A">>
NoValue == [status |-> "none", records |-> <<>>]
\* qResult: raised/status/records are what the call returned; cached tells
\* whether it came from the cache, and stored whether it then was the value
\* stored by the last completed network lookup of the same triple
NoResult ==
    [raised |-> FALSE, status |-> "none", records |-> <<>>, cached |-> FALSE,
     stored |-> TRUE]

QueryIdle ==
    /\ cache = <<>>
    /\ qKey = [c \in Callers |-> NoKey]
    /\ qResult = NoResult
    /\ lastOutcome = [k \in QKeys |-> NoValue]
    /\ storedAt = [k \in QKeys |-> -1]

CacheHit(k) == CacheHas(cache, MakeCacheKey(k), now)

\* lines 149-162 run as soon as acquire has returned: a hit returns the
\* cached pair, a miss starts resolver.resolve
AfterAcquire(c, k) ==
    IF CacheHit(k)
    THEN /\ qResult' =
                [raised |-> FALSE,
                 status |-> cache[CacheValue(cache, MakeCacheKey(k))].value.status,
                 records |-> cache[CacheValue(cache, MakeCacheKey(k))].value.records,
                 cached |-> TRUE,
                 stored |-> cache[CacheValue(cache, MakeCacheKey(k))].value = lastOutcome[k]]
         /\ cache' = CacheTouch(cache, MakeCacheKey(k))
         /\ qKey' = [qKey EXCEPT ![c] = NoKey]
    ELSE /\ qKey' = [qKey EXCEPT ![c] = k]
         /\ UNCHANGED <<cache, qResult>>

AfterCheck(k) == IF CacheHit(k) THEN "idle" ELSE "resolving"

\* line 147: _query_dns starts with rate_limiter.acquire(zone)
QueryCall(c, k) ==
    /\ RLCall(c, k[2], AfterCheck(k))
    /\ IF LockFree /\ ~MustSleep(k[2])
       THEN AfterAcquire(c, k)
       ELSE qKey' = [qKey EXCEPT ![c] = k] /\ UNCHANGED <<cache, qResult>>
    /\ UNCHANGED <<lastOutcome, storedAt, notQuery>>

QueryEnter(c) ==
    /\ RLEnter(c, AfterCheck(qKey[c]))
    /\ IF MustSleep(rlZone[c])
       THEN UNCHANGED <<cache, qResult, qKey>>
       ELSE AfterAcquire(c, qKey[c])
    /\ UNCHANGED <<lastOutcome, storedAt, notQuery>>

QueryWake(c) ==
    /\ RLWake(c, AfterCheck(qKey[c]))
    /\ AfterAcquire(c, qKey[c])
    /\ UNCHANGED <<lastOutcome, storedAt, notQuery>>

\* variant: the lookup also writes a check_results row
QueryReplySaving(c, o) ==
    /\ rlpc[c] = "resolving"
    /\ rlpc' = [rlpc EXCEPT ![c] = "idle"]
    /\ qResult' = [raised |-> QueryResult(o).raised,
                   status |-> QueryResult(o).status,
                   records |-> QueryResult(o).records,
                   cached |-> FALSE, stored |-> TRUE]
    /\ qKey' = [qKey EXCEPT ![c] = NoKey]
    /\ IF QueryResult(o).raised
       THEN UNCHANGED <<cache, lastOutcome, storedAt>>
       ELSE LET v == [status |-> QueryResult(o).status, records |-> QueryResult(o).records]
            IN  /\ cache' = CacheSet(cache, MakeCacheKey(qKey[c]), v, now)
                /\ lastOutcome' = [lastOutcome EXCEPT ![qKey[c]] = v]
                /\ storedAt' = [storedAt EXCEPT ![qKey[c]] = now]
    /\ results' = Append(results, [target_id |-> 1, zone |-> qKey[c][2],
                                    status |-> QueryResult(o).status,
                                    a_records |-> QueryResult(o).records,
                                    error_reason |-> "None", run_id |-> 0])
    /\ UNCHANGED <<now, requests, rlLock, rlZone, rlNow, rlWake, rlCalls, grants>>
    /\ UNCHANGED <<ckVars, poolVars, isRunning, runs, alerts, mpc, mRun, mLast,
                   mCalls, bgTasks, webhookUrl, lastCheck>>

\* lines 162-190: the resolver call ends with outcome o; every outcome
\* _query_dns catches is stored in the cache before it is returned
QueryReply(c, o) ==
    /\ rlpc[c] = "resolving"
    /\ rlpc' = [rlpc EXCEPT ![c] = "idle"]
    /\ qResult' = [raised |-> QueryResult(o).raised,
                   status |-> QueryResult(o).status,
                   records |-> QueryResult(o).records,
                   cached |-> FALSE, stored |-> TRUE]
    /\ qKey' = [qKey EXCEPT ![c] = NoKey]
    /\ IF QueryResult(o).raised
       THEN UNCHANGED <<cache, lastOutcome, storedAt>>
       ELSE LET v == [status |-> QueryResult(o).status, records |-> QueryResult(o).records]
            IN  /\ cache' = CacheSet(cache, MakeCacheKey(qKey[c]), v, now)
                /\ lastOutcome' = [lastOutcome EXCEPT ![qKey[c]] = v]
                /\ storedAt' = [storedAt EXCEPT ![qKey[c]] = now]
    /\ UNCHANGED <<now, requests, rlLock, rlZone, rlNow, rlWake, rlCalls, grants>>
    /\ UNCHANGED notQuery

\* clear_cache (dnsbl_checker.py 390-392, POST /check/cache/clear)
\* the history of stores starts afresh
ClearCache ==
    /\ cache # <<>>
    /\ cache' = <<>>
    /\ lastOutcome' = [k \in QKeys |-> NoValue]
    /\ storedAt' = [k \in QKeys |-> -1]
    /\ UNCHANGED <<rlVars, qKey, qResult, notQuery>>

\* real time passes; the history of stores forgets those older than the TTL
QueryTick ==
    /\ ClockTick
    /\ storedAt' = [k \in QKeys |-> IF now + 1 < storedAt[k] + CacheTTL THEN storedAt[k] ELSE -1]
    /\ lastOutcome' = [k \in QKeys |-> IF now + 1 < storedAt[k] + CacheTTL THEN lastOutcome[k] ELSE NoValue]
    /\ UNCHANGED <<cache, qKey, qResult, notQuery>>

\* ------------------------------------------------------------------------
\* Monitoring runs (monitoring.py 22-318, api/monitor.py 19-76,
\* main.py 179-193).  One server process: one MonitoringService on one
\* event loop, so the code between two awaits of run_monitoring is one step.
\* Targets and zones are the enabled rows; a target's id stands for its
\* text, a zone's id is its place in ZoneList.
\* ------------------------------------------------------------------------
\* the enabled Target rows, and their ids
MonTargets == <<1>>
TargetIds == {MonTargets[i] : i \in DOMAIN MonTargets}
MonPairs == {<<t, z>> : t \in TargetIds, z \in Zones}
\* request.target_ids / request.zone_ids: none, an existing id, an unknown id
TargetIdInputs == {<<>>, <<1>>, <<2>>}
ZoneIdInputs == {<<>>, <<1>>}
\* resolver outcomes of a run's lookups
MonAOutcomes == BatchAOutcomes
\* the outcomes that decide whether a run has alerts to deliver
HookAOutcomes == {Fails("NXDOMAIN"), Answer(<<<<127, 0, 0, 2>>>>)}

InSeq(x, seq) == \E i \in DOMAIN seq : seq[i] = x
ZoneId(z) == CHOOSE i \in DOMAIN ZoneList : ZoneList[i] = z

\* lines 53-62: "if target_ids:" filters only for a non-empty list
ScopeTargets(target_ids) ==
    IF target_ids = <<>> THEN MonTargets
    ELSE SelectSeq(MonTargets, LAMBDA t : InSeq(t, target_ids))
ScopeZones(zone_ids) ==
    IF zone_ids = <<>> THEN ZoneList
    ELSE SelectSeq(ZoneList, LAMBDA z : InSeq(ZoneId(z), zone_ids))

\* MonitorRun(triggered_by=..., status="running", ...)
\* MonitorRun row.  History fields: committed lists the final statuses
\* committed for the row, dispatched counts the calls of _send_webhooks with
\* the row, posts lists the responses to the outbound calls made for it
MkRun(triggered_by) ==
    [triggered_by |-> triggered_by, status |-> "running", total_targets |-> 0,
     total_zones |-> 0, total_checks |-> 0, listed_count |-> 0,
     blocked_count |-> 0, error_count |-> 0, error_message |-> None,
     committed |-> <<>>, dispatched |-> 0, posts |-> <<>>]

\* lines 79-90: previous_statuses; a later row of a pair overwrites an
\* earlier one, a pair without row has no key (get returns None)
PreviousStatuses(rows, targets, zones) ==
    [p \in MonPairs |->
        LET hits == {i \in DOMAIN rows : rows[i].target_id = p[1] /\ rows[i].zone = p[2]}
        IN  IF InSeq(p[1], targets) /\ InSeq(p[2], zones) /\ hits # {}
            THEN rows[CHOOSE i \in hits : \A j \in hits : j <= i].status
            ELSE None]

NoRun ==
    [id |-> 0, targets |-> <<>>, zones |-> <<>>,
     previous_statuses |-> [p \in MonPairs |-> None], alerts |-> {}]
NoCheck ==
    [run |-> 0, targets |-> <<>>, zones |-> <<>>,
     previous_statuses |-> [p \in MonPairs |-> None],
     a |-> [p \in MonPairs |-> Fails("NXDOMAIN")], txt_asked |-> {},
     from_cache |-> {}]

\* line 102: the run calls check_multiple with include_txt=False
MonIncludeTxt == FALSE

\* lines 110-165: the saves of one target's result, in the order of the loops
TargetSteps(r) ==
    MapSeq(r.listed, LAMBDA e : [target |-> r.target, zone |-> e.zone,
              status |-> "listed", a_records |-> e.a, error_reason |-> None])
    \o MapSeq(r.blocked, LAMBDA e : [target |-> r.target, zone |-> e.zone,
              status |-> "blocked", a_records |-> e.a, error_reason |-> None])
    \o MapSeq(r.errors, LAMBDA e : [target |-> r.target, zone |-> e.zone,
              status |-> "error", a_records |-> <<>>, error_reason |-> e.error])

RECURSIVE RunSteps(_)
RunSteps(target_results) ==
    IF target_results = <<>> THEN <<>>
    ELSE TargetSteps(Head(target_results)) \o RunSteps(Tail(target_results))

\* variant: always "Create new"
SaveCheckResultInsert(rows, s, run_id) ==
    Append(rows, [target_id |-> s.target, zone |-> s.zone, status |-> s.status,
                  a_records |-> s.a_records, error_reason |-> s.error_reason,
                  run_id |-> run_id])

\* _save_check_result: update the first row of the pair, else insert one
SaveCheckResult(rows, s, run_id) ==
    LET hits == {i \in DOMAIN rows : rows[i].target_id = s.target /\ rows[i].zone = s.zone}
    IN  IF hits # {}
        THEN [rows EXCEPT ![CHOOSE i \in hits : \A j \in hits : i <= j] =
                 [@ EXCEPT !.status = s.status, !.a_records = s.a_records,
                           !.error_reason = s.error_reason, !.run_id = run_id]]
        ELSE Append(rows, [target_id |-> s.target, zone |-> s.zone, status |-> s.status,
                           a_records |-> s.a_records, error_reason |-> s.error_reason,
                           run_id |-> run_id])

RECURSIVE SaveAll(_, _, _)
SaveAll(rows, steps, run_id) ==
    IF steps = <<>> THEN rows
    ELSE SaveAll(SaveCheckResult(rows, Head(steps), run_id), Tail(steps), run_id)

\* variant: every alert is typed newly_listed
MkAlertAlwaysNewlyListed(s, old_status, run_id) ==
    [alert_type |-> "newly_listed",
     target_id |-> s.target, zone |-> s.zone, old_status |-> old_status,
     new_status |-> s.status, webhook_sent |-> FALSE, webhook_status |-> None,
     webhook_error |-> None, run |-> run_id]

\* _create_alert; field run tells the run that created it (created_at)
MkAlert(s, old_status, run_id) ==
    [alert_type |-> IF s.status = "listed" THEN "newly_listed" ELSE "blocked",
     target_id |-> s.target, zone |-> s.zone, old_status |-> old_status,
     new_status |-> s.status, webhook_sent |-> FALSE, webhook_status |-> None,
     webhook_error |-> None, run |-> run_id]

\* variant: an error that differs from the previous status alerts too
NewAlertsAnyStatus(steps, previous_statuses, run_id) ==
    MapSeq(SelectSeq(steps, LAMBDA s : previous_statuses[<<s.target, s.zone>>] # s.status),
           LAMBDA s : MkAlert(s, previous_statuses[<<s.target, s.zone>>], run_id))

\* variant: the alert decision reads the pair's row after the save
NewAlertsFromRows(steps, previous_statuses, run_id) ==
    LET saved == PreviousStatuses(SaveAll(results, steps, run_id), mRun.targets,
                                  mRun.zones)
    IN  MapSeq(SelectSeq(steps, LAMBDA s : s.status \in {"listed", "blocked"}
                            /\ saved[<<s.target, s.zone>>] # s.status),
               LAMBDA s : MkAlert(s, saved[<<s.target, s.zone>>], run_id))

\* lines 125-135 and 146-156: the alerts the saves of a run create
NewAlerts(steps, previous_statuses, run_id) ==
    MapSeq(SelectSeq(steps, LAMBDA s : s.status \in {"listed", "blocked"}
                        /\ previous_statuses[<<s.target, s.zone>>] # s.status),
           LAMBDA s : MkAlert(s, previous_statuses[<<s.target, s.zone>>], run_id))

\* variant: no created_at filter
UnsentAlertsAnyAge(all, run_id) ==
    {i \in DOMAIN all : ~all[i].webhook_sent}

\* lines 266-271: unsent alerts created since the run started
UnsentAlerts(all, run_id) ==
    {i \in DOMAIN all : ~all[i].webhook_sent /\ all[i].run >= run_id}

MonStart ==
    /\ isRunning = FALSE
    /\ runs = <<>>
    /\ results = <<>>
    /\ alerts = <<>>
    /\ mpc = "idle"
    /\ mRun = NoRun
    /\ mLast = "none"
    /\ mCalls = 0
    /\ bgTasks = <<>>
    /\ lastCheck = NoCheck
MonIdle == MonStart /\ webhookUrl = ""

\* variant: the rejected call goes through the finally clause of line 192
RejectCallReleasing ==
    /\ isRunning
    /\ mLast' = "rejected"
    /\ isRunning' = FALSE
    /\ UNCHANGED <<runs, results, alerts, mpc, mRun, lastCheck>>

\* lines 36-37: raise RuntimeError, before the guard is set and the try entered
RejectCall ==
    /\ isRunning
    /\ mLast' = "rejected"
    /\ UNCHANGED <<isRunning, runs, results, alerts, mpc, mRun, lastCheck>>

\* lines 39-99: up to the await of check_multiple, or the early return of
\* lines 68-74 when nothing is in scope
BeginRun(triggered_by, target_ids, zone_ids) ==
    LET targets == ScopeTargets(target_ids)
        zones == ScopeZones(zone_ids)
        run == [MkRun(triggered_by) EXCEPT !.total_targets = Len(targets),
                                           !.total_zones = Len(zones)]
    IN  /\ ~isRunning
        /\ IF targets = <<>> \/ zones = <<>>
           THEN /\ runs' = Append(runs, [run EXCEPT !.status = "completed",
                                                    !.committed = <<"completed">>])
                /\ mLast' = "completed"
                /\ UNCHANGED <<isRunning, mpc, mRun>>
           ELSE /\ runs' = Append(runs, run)
                /\ isRunning' = TRUE
                /\ mpc' = "checking"
                /\ mRun' = [id |-> Len(runs) + 1, targets |-> targets, zones |-> zones,
                            previous_statuses |-> PreviousStatuses(results, targets, zones),
                            alerts |-> {}]
                /\ mLast' = "running"
        /\ UNCHANGED <<results, alerts, lastCheck>>

StartRun(triggered_by, target_ids, zone_ids) ==
    /\ Len(runs) < MaxRuns
    /\ BeginRun(triggered_by, target_ids, zone_ids)

\* lines 41-62 and 185-193: the storage layer raises while the scope is
\* resolved; the run is marked failed, the error re-raised, the guard released
StartFails(triggered_by) ==
    /\ ~isRunning
    /\ Len(runs) < MaxRuns
    /\ runs' = Append(runs, [MkRun(triggered_by) EXCEPT !.status = "failed",
                                !.error_message = "error",
                                !.committed = <<"failed">>])
    /\ mLast' = "failed"
    /\ UNCHANGED <<isRunning, mpc, mRun, results, alerts, lastCheck>>

\* lines 39-48: the guard is set, then opening the session or the flush that
\* inserts the MonitorRun row raises; the try statement of line 50 has not
\* been entered, so neither the except nor the finally clause runs
CreateRunFails ==
    /\ ~isRunning
    /\ isRunning' = TRUE
    /\ mLast' = "create failed"
    /\ UNCHANGED <<runs, results, alerts, mpc, mRun, lastCheck>>

\* MonitoringService.run_monitoring, when it is called
RunMonitoring(triggered_by, target_ids, zone_ids) ==
    /\ mCalls < MaxMonCalls
    /\ mCalls' = mCalls + 1
    /\ \/ RejectCall
       \/ StartRun(triggered_by, target_ids, zone_ids)
       \/ StartFails(triggered_by)
       \/ CreateRunFails
    /\ UNCHANGED webhookUrl

\* main.py scheduled_monitoring: the interval job
ScheduledMonitoring ==
    /\ RunMonitoring("scheduler", <<>>, <<>>)
    /\ UNCHANGED <<bgTasks, notMon>>

\* the interval job again, when nothing else calls run_monitoring and the
\* storage layer does not fail: each call is rejected or starts a run
IntervalRun ==
    /\ mCalls < MaxIntervalRuns
    /\ mCalls' = mCalls + 1
    /\ \/ RejectCall
       \/ BeginRun("scheduler", <<>>, <<>>)
    /\ UNCHANGED <<bgTasks, webhookUrl, notMon>>

\* POST /monitor/run: commits a MonitorRun row of its own with status
\* "running" and adds the background task that calls run_monitoring
TriggerMonitorRun(target_ids, zone_ids) ==
    /\ Len(runs) < MaxRuns
    /\ runs' = Append(runs, MkRun("api"))
    /\ bgTasks' = Append(bgTasks, [target_ids |-> target_ids, zone_ids |-> zone_ids])
    /\ UNCHANGED <<isRunning, results, alerts, mpc, mRun, mLast, mCalls, webhookUrl,
                   lastCheck, notMon>>

\* the background task of trigger_monitor_run starts; it swallows the
\* exception of a rejected call
BackgroundRun(i) ==
    /\ i \in DOMAIN bgTasks
    /\ RunMonitoring("api", bgTasks[i].target_ids, bgTasks[i].zone_ids)
    /\ bgTasks' = SubSeq(bgTasks, 1, i - 1) \o SubSeq(bgTasks, i + 1, Len(bgTasks))
    /\ UNCHANGED notMon

\* what finishes a run: finally releases the guard
RunReturns(how) ==
    /\ isRunning' = FALSE
    /\ mpc' = "idle"
    /\ mRun' = NoRun
    /\ mLast' = how

\* the resolver is asked about the pairs in scope only
InScope(a) ==
    \A p \in MonPairs :
        (InSeq(p[1], mRun.targets) /\ InSeq(p[2], mRun.zones)) \/ a[p] = Fails("NXDOMAIN")

\* variant: a blocked result adds to listed_count as well
CompletedRunBlockedAsListed(run, steps) ==
    [run EXCEPT !.status = "completed",
                !.total_checks = Len(steps),
                !.listed_count = CountWhere(steps, LAMBDA s : s.status \in {"listed", "blocked"}),
                !.blocked_count = CountWhere(steps, LAMBDA s : s.status = "blocked"),
                !.error_count = CountWhere(steps, LAMBDA s : s.status = "error"),
                !.committed = Append(@, "completed"),
                !.dispatched = @ + 1]

\* lines 169-178: the run row with its final stats, completed and committed,
\* then handed to _send_webhooks (line 181)
CompletedRun(run, steps) ==
    [run EXCEPT !.status = "completed",
                !.total_checks = Len(steps),
                !.listed_count = CountWhere(steps, LAMBDA s : s.status = "listed"),
                !.blocked_count = CountWhere(steps, LAMBDA s : s.status = "blocked"),
                !.error_count = CountWhere(steps, LAMBDA s : s.status = "error"),
                !.committed = Append(@, "completed"),
                !.dispatched = @ + 1]

\* the text of a target row, and the cache key of a pair's A lookup
TargetText(t) == IF t = 1 THEN "t1" ELSE "t2"
PairKey(p) == <<TargetText(p[1]), p[2], "A">>

\* the pairs in the scope of the run in progress
RunPairs == {p \in MonPairs : InSeq(p[1], mRun.targets) /\ InSeq(p[2], mRun.zones)}
\* lines 149-152: those whose _query_dns call finds a live cache entry
CachedPairs == {p \in RunPairs : CacheHit(PairKey(p))}

\* the resolver outcome that gives the (status, records) pair of a cache entry
AsOutcome(v) ==
    CASE v.status = "success"  -> Answer(v.records)
      [] v.status = "nxdomain" -> Fails("NXDOMAIN")
      [] v.status = "noanswer" -> Fails("NoAnswer")
      [] v.status = "timeout"  -> Fails("Timeout")
      [] OTHER                 -> Fails("DNSException")

\* what the _query_dns calls of the run in progress return: the cached pair
\* on a hit, else what the resolver gives (a)
Served(a) ==
    [p \in MonPairs |->
        IF p \in CachedPairs
        THEN AsOutcome(cache[CacheValue(cache, MakeCacheKey(PairKey(p)))].value)
        ELSE a[p]]

\* the cache after the lookups of the pairs of order, made in that order: a
\* hit marks the entry used, a miss stores what the resolver gave unless
\* _query_dns raised
RECURSIVE CacheAfter(_, _, _)
CacheAfter(ch, order, a) ==
    IF order = <<>> THEN ch
    ELSE LET p == Head(order)
             key == MakeCacheKey(PairKey(p))
             r == QueryResult(a[p])
         IN  CacheAfter(IF p \in CachedPairs THEN CacheTouch(ch, key)
                        ELSE IF r.raised THEN ch
                        ELSE CacheSet(ch, key, [status |-> r.status,
                                                records |-> r.records], now),
                        Tail(order), a)

\* the orders in which the lookups of the run's pairs can be made
LookupOrders ==
    {o \in [1..Cardinality(RunPairs) -> RunPairs] :
        \A i, j \in DOMAIN o : o[i] = o[j] => i = j}

\* lines 99-183: check_multiple returns; a gives what _query_dns returned
\* for each pair and cached the pairs it took from the cache.  The results
\* are saved, alerts created, the run completed and committed, and
\* _send_webhooks runs up to its post (or returns)
Checked(a, cached) ==
    /\ mpc = "checking"
    /\ InScope(a)
    /\ LET out == CheckMultiple(mRun.targets, mRun.zones, MonIncludeTxt, a, a)
           steps == RunSteps(out.results)
           all == alerts \o NewAlerts(steps, mRun.previous_statuses, mRun.id)
       IN  /\ results' = SaveAll(results, steps, mRun.id)
           /\ alerts' = all
           /\ runs' = [runs EXCEPT ![mRun.id] = CompletedRun(@, steps)]
           /\ lastCheck' = [run |-> mRun.id, targets |-> mRun.targets,
                            zones |-> mRun.zones,
                            previous_statuses |-> mRun.previous_statuses, a |-> a,
                            txt_asked |-> TxtAsked(mRun.targets, mRun.zones,
                                                   MonIncludeTxt, a, a),
                            from_cache |-> cached]
           /\ IF webhookUrl = "" \/ UnsentAlerts(all, mRun.id) = {}
              THEN RunReturns("completed")
              ELSE /\ mpc' = "posting"
                   /\ mRun' = [mRun EXCEPT !.alerts = UnsentAlerts(all, mRun.id)]
                   /\ UNCHANGED <<isRunning, mLast>>
    /\ UNCHANGED <<mCalls, bgTasks, webhookUrl>>

\* the same, seen from the run: a is what the lookups returned, and the
\* checker's own state is left out
ChecksReturn(a) ==
    /\ Checked(a, CachedPairs)
    /\ UNCHANGED notMon

\* the same with the checker's cache: the lookups of the run go through
\* _query_dns of the shared checker (monitoring.py line 26), a is what the
\* resolver gives to those that reach it
ChecksReturnThroughCache(a, order) ==
    /\ order \in LookupOrders
    /\ Checked(Served(a), CachedPairs)
    /\ cache' = CacheAfter(cache, order, a)
    /\ UNCHANGED <<rlVars, ckVars, poolVars, qKey, qResult, lastOutcome, storedAt>>

\* lines 185-191: the except clause marks the run failed and commits what
\* the session holds
FailedRun(run) ==
    [run EXCEPT !.status = "failed", !.error_message = "error",
                !.committed = Append(@, "failed")]

\* variant: no finally clause, the guard stays set
RunFailsKeepingGuard(a, n) ==
    /\ mpc = "checking"
    /\ InScope(a)
    /\ LET out == CheckMultiple(mRun.targets, mRun.zones, MonIncludeTxt, a, a)
           steps == RunSteps(out.results)
           done == SubSeq(steps, 1, n)
       IN  /\ n <= Len(steps)
           /\ results' = SaveAll(results, done, mRun.id)
           /\ alerts' = alerts \o NewAlerts(done, mRun.previous_statuses, mRun.id)
    /\ runs' = [runs EXCEPT ![mRun.id] = FailedRun(@)]
    /\ mpc' = "idle"
    /\ mRun' = NoRun
    /\ mLast' = "failed"
    /\ UNCHANGED <<isRunning, lastCheck, mCalls, bgTasks, webhookUrl, notMon>>

\* lines 99-167 and 185-193: the checks have returned (or raised, n = 0) and
\* the storage layer raises after n results were saved; the run is marked
\* failed and the error re-raised
RunFails(a, n) ==
    /\ mpc = "checking"
    /\ InScope(a)
    /\ LET out == CheckMultiple(mRun.targets, mRun.zones, MonIncludeTxt, a, a)
           steps == RunSteps(out.results)
           done == SubSeq(steps, 1, n)
       IN  /\ n <= Len(steps)
           /\ results' = SaveAll(results, done, mRun.id)
           /\ alerts' = alerts \o NewAlerts(done, mRun.previous_statuses, mRun.id)
    /\ runs' = [runs EXCEPT ![mRun.id] = FailedRun(@)]
    /\ RunReturns("failed")
    /\ UNCHANGED <<lastCheck, mCalls, bgTasks, webhookUrl, notMon>>

\* lines 99-191 and 262-298: as ChecksReturn, but _send_webhooks raises
\* before its try statement (the query of lines 266-271 or the payload of
\* lines 277-298); the except clause of run_monitoring marks the run failed
DispatchRaises(a) ==
    /\ mpc = "checking"
    /\ InScope(a)
    /\ webhookUrl # ""
    /\ LET out == CheckMultiple(mRun.targets, mRun.zones, MonIncludeTxt, a, a)
           steps == RunSteps(out.results)
       IN  /\ results' = SaveAll(results, steps, mRun.id)
           /\ alerts' = alerts \o NewAlerts(steps, mRun.previous_statuses, mRun.id)
           /\ runs' = [runs EXCEPT ![mRun.id] = FailedRun(CompletedRun(@, steps))]
    /\ lastCheck' = [run |-> mRun.id, targets |-> mRun.targets, zones |-> mRun.zones,
                     previous_statuses |-> mRun.previous_statuses, a |-> a,
                     txt_asked |-> TxtAsked(mRun.targets, mRun.zones,
                                            MonIncludeTxt, a, a),
                     from_cache |-> CachedPairs]
    /\ RunReturns("failed")
    /\ UNCHANGED <<mCalls, bgTasks, webhookUrl, notMon>>

\* what client.post and raise_for_status of lines 303-304 can give
WebhookResponses == {"ok", "timeout", "network error", "status 500"}

\* variant: a failed post marks only the first included alert
WebhookReplyMarkingFirst(response) ==
    /\ mpc = "posting"
    /\ alerts' = [i \in DOMAIN alerts |->
                    IF i \in mRun.alerts
                    THEN IF response = "ok"
                         THEN [alerts[i] EXCEPT !.webhook_sent = TRUE,
                                                !.webhook_status = "sent"]
                         ELSE IF \A j \in mRun.alerts : i <= j
                              THEN [alerts[i] EXCEPT !.webhook_sent = FALSE,
                                                     !.webhook_status = "failed",
                                                     !.webhook_error = response]
                              ELSE alerts[i]
                    ELSE alerts[i]]
    /\ runs' = [runs EXCEPT ![mRun.id] = [@ EXCEPT !.posts = Append(@, response)]]
    /\ RunReturns("completed")
    /\ UNCHANGED <<results, lastCheck, mCalls, bgTasks, webhookUrl, notMon>>

\* lines 301-318: the post has succeeded or failed
WebhookReply(response) ==
    /\ mpc = "posting"
    /\ alerts' = [i \in DOMAIN alerts |->
                    IF i \in mRun.alerts
                    THEN IF response = "ok"
                         THEN [alerts[i] EXCEPT !.webhook_sent = TRUE,
                                                !.webhook_status = "sent"]
                         ELSE [alerts[i] EXCEPT !.webhook_sent = FALSE,
                                                !.webhook_status = "failed",
                                                !.webhook_error = response]
                    ELSE alerts[i]]
    /\ runs' = [runs EXCEPT ![mRun.id] = [@ EXCEPT !.posts = Append(@, response)]]
    /\ RunReturns("completed")
    /\ UNCHANGED <<results, lastCheck, mCalls, bgTasks, webhookUrl, notMon>>

\* runs with ALERT_WEBHOOK_URL left at its default "" (config.py line 50)
InitMon == RLIdle /\ QueryIdle /\ ZoneIdle /\ BatchIdle /\ MonIdle /\ PoolIdle
NextMon ==
    \/ ScheduledMonitoring
    \/ \E t \in TargetIdInputs, z \in ZoneIdInputs : TriggerMonitorRun(t, z)
    \/ \E i \in 1..MaxRuns : BackgroundRun(i)
    \/ \E a \in [MonPairs -> MonAOutcomes] : ChecksReturn(a)
    \/ \E a \in [MonPairs -> MonAOutcomes], n \in 0..Cardinality(MonPairs) : RunFails(a, n)
SpecMon == InitMon /\ [][NextMon]_vars

\* runs with ALERT_WEBHOOK_URL set
InitHook == RLIdle /\ QueryIdle /\ ZoneIdle /\ BatchIdle /\ MonStart /\ PoolIdle
            /\ webhookUrl = "http://hook"
NextHook ==
    \/ ScheduledMonitoring
    \/ \E t \in TargetIdInputs, z \in ZoneIdInputs : TriggerMonitorRun(t, z)
    \/ \E i \in 1..MaxRuns : BackgroundRun(i)
    \/ \E a \in [MonPairs -> HookAOutcomes] : ChecksReturn(a)
    \/ \E a \in [MonPairs -> HookAOutcomes], n \in 0..Cardinality(MonPairs) : RunFails(a, n)
    \/ \E a \in [MonPairs -> HookAOutcomes] : DispatchRaises(a)
    \/ \E r \in WebhookResponses : WebhookReply(r)
SpecHook == InitHook /\ [][NextHook]_vars

\* the interval job alone, every run completing
NextInterval ==
    \/ IntervalRun
    \/ \E a \in [MonPairs -> HookAOutcomes] : ChecksReturn(a)
SpecInterval == InitMon /\ [][NextInterval]_vars

\* the interval job and the checker's cache, while time passes
NextRunCache ==
    \/ IntervalRun
    \/ \E a \in [MonPairs -> HookAOutcomes], order \in SeqsUpTo(MonPairs, Cardinality(MonPairs)) :
          ChecksReturnThroughCache(a, order)
    \/ QueryTick
    \/ ClearCache
SpecRunCache == InitMon /\ [][NextRunCache]_vars

InitQuery == RLIdle /\ QueryIdle /\ ZoneIdle /\ BatchIdle /\ MonIdle /\ PoolIdle
NextQuery ==
    \/ \E c \in Callers, k \in QKeys : QueryCall(c, k)
    \/ \E c \in Callers : QueryEnter(c)
    \/ \E c \in Callers : QueryWake(c)
    \/ \E c \in Callers, o \in QOutcomes : QueryReply(c, o)
    \/ ClearCache
    \/ QueryTick
SpecQuery == InitQuery /\ [][NextQuery]_vars

RLInit == RLIdle /\ QueryIdle /\ ZoneIdle /\ BatchIdle /\ MonIdle /\ PoolIdle

SpecRL == RLInit /\ [][RLNext]_vars

\* the limiter under a fair event loop: time also passes while a caller
\* sleeps (line 62), so every sleep comes to its end; asyncio.Lock wakes its
\* waiters in turn, so a caller queued on line 52 gets the lock
SleepTick ==
    /\ now >= MaxTime
    /\ \E c \in Callers : rlpc[c] = "sleeping" /\ now < rlWake
    /\ now' = now + 1
    /\ grants' = [z \in Zones |-> CleanOld(grants[z], now + 1 - TicksPerSecond)]
    /\ UNCHANGED <<requests, rlLock, rlpc, rlZone, rlNow, rlWake, rlCalls, notRL>>
RLFairNext == RLNext \/ SleepTick
RLFairness ==
    /\ WF_vars(Tick)
    /\ WF_vars(SleepTick)
    /\ \A c \in Callers : WF_vars(AcquireWake(c))
    /\ \A c \in Callers : SF_vars(AcquireEnter(c))
SpecRLFair == RLInit /\ [][RLFairNext]_vars /\ RLFairness

InitZone == RLIdle /\ QueryIdle /\ ZoneInit /\ BatchIdle /\ MonIdle /\ PoolIdle
NextZone == CheckZoneCall
SpecZone == InitZone /\ [][NextZone]_vars

InitBatch == RLIdle /\ QueryIdle /\ ZoneIdle /\ BatchInit /\ MonIdle /\ PoolIdle
NextBatch == CheckMultipleCall
SpecBatch == InitBatch /\ [][NextBatch]_vars

InitPool == RLIdle /\ QueryIdle /\ ZoneIdle /\ BatchIdle /\ MonIdle /\ PoolIdle
NextPool ==
    \/ \E c \in Concurrencies : PoolCall(c)
    \/ \E t \in PoolTargets : TargetEnter(t)
    \/ \E t \in PoolTargets, z \in Zones : ZoneEnter(t, z)
    \/ \E t \in PoolTargets, z \in Zones : ZoneDone(t, z)
    \/ \E t \in PoolTargets : TargetDone(t)
    \/ PoolReturn
SpecPool == InitPool /\ [][NextPool]_vars

\* ------------------------------------------------------------------------
\* C1: for every zone, every rolling window of one second (TicksPerSecond
\* ticks, half open) holds at most MaxRequests returns from acquire.
\* ------------------------------------------------------------------------
GrantsInWindow(z, t) ==
    Cardinality({i \in DOMAIN grants[z] :
                    grants[z][i] > t - TicksPerSecond /\ grants[z][i] <= t})

RateLimitRespected ==
    \A z \in Zones : GrantsInWindow(z, now) <= MaxRequests

\* ------------------------------------------------------------------------
\* C7: a check_zone call that returns a result for a non-empty answer gives
\* `blocked` on a special-range zone when an address lies in
\* 127.255.255.0/24, `listed` on a special-range zone when none does, and
\* `listed` on any other zone; an answer with zero records gives
\* `not_listed`.  The only call that returns no result is one whose
\* requested TXT lookup raised an exception that is no DNSException.
\* ------------------------------------------------------------------------
AddrValue(ip) == ((ip[1] * 256 + ip[2]) * 256 + ip[3]) * 256 + ip[4]
BlockedLow == AddrValue(<<127, 255, 255, 0>>)
BlockedHigh == AddrValue(<<127, 255, 255, 255>>)
InBlockedRange(ip) == AddrValue(ip) >= BlockedLow /\ AddrValue(ip) <= BlockedHigh

ExpectedZoneStatus(zone, recs) ==
    IF recs = <<>> THEN "not_listed"
    ELSE IF zone \in SpamhausZones /\ \E i \in DOMAIN recs : InBlockedRange(recs[i])
         THEN "blocked"
    ELSE "listed"

ZoneErrorMapping ==
    czOut # ZoneNotCalled =>
        /\ czIn.a.kind = "Timeout" =>
              /\ ~czOut.raised /\ czOut.status = "error"
              /\ czOut.error_reason = "timeout" /\ czOut.a_records = <<>>
        /\ czIn.a.kind = "DNSException" =>
              /\ ~czOut.raised /\ czOut.status = "error"
              /\ czOut.error_reason = "error" /\ czOut.a_records = <<>>
        /\ czIn.a.kind \in {"NXDOMAIN", "NoAnswer"} =>
              /\ ~czOut.raised /\ czOut.status = "not_listed"
              /\ czOut.error_reason = None /\ czOut.a_records = <<>>

ZoneErrorMappingWitness ==
    /\ czIn.a.kind = "Timeout"
    /\ czIn.include_txt
    /\ czOut.status = "error"

\* ------------------------------------------------------------------------
\* C8: when the check of one zone raises inside check_target, the
\* identifier's result is still returned, with an errors entry for that zone
\* and the other zones' results in their buckets.
\* ------------------------------------------------------------------------
CbZoneResults(t) == ZoneResults(t, ZoneList, cbIn.include_txt, cbIn.a,
                                [p \in CkPairs |-> cbIn.txt])

ZoneFailureRecorded ==
    cbOut # BatchNotCalled =>
        \A i \in DOMAIN CkTargets : \A j \in DOMAIN ZoneList :
            CbZoneResults(CkTargets[i])[j].raised =>
                \E k \in DOMAIN cbOut.results :
                    /\ cbOut.results[k].target = CkTargets[i]
                    /\ \E e \in DOMAIN cbOut.results[k].errors :
                          cbOut.results[k].errors[e].zone = ZoneList[j]

\* ------------------------------------------------------------------------
\* C9: when the check of one identifier raises inside check_multiple, the
\* batch still returns, the identifier is counted once in error_ips, and
\* the result of every identifier whose check returned is in the results.
\* ------------------------------------------------------------------------
CbTargetResult(t) == AggregateTarget(t, CbZoneResults(t))
CbFailed == {i \in DOMAIN CkTargets : CbTargetResult(CkTargets[i]).raised}
CbErrorOnly ==
    {i \in DOMAIN CkTargets :
        LET r == CbTargetResult(CkTargets[i])
        IN  ~r.raised /\ r.errors # <<>> /\ r.listed = <<>> /\ r.blocked = <<>>}

BatchSurvivesTargetFailure ==
    cbOut # BatchNotCalled =>
        /\ ~cbOut.raised
        /\ cbOut.summary.total_ips = Len(CkTargets)
        /\ cbOut.summary.error_ips = Cardinality(CbFailed) + Cardinality(CbErrorOnly)
        /\ Len(cbOut.results) = Len(CkTargets) - Cardinality(CbFailed)
        /\ \A i \in DOMAIN CkTargets : i \notin CbFailed =>
              \E k \in DOMAIN cbOut.results :
                  cbOut.results[k] = CbTargetResult(CkTargets[i])

BatchSurvivesTargetFailureWitness ==
    /\ cbOut # BatchNotCalled
    /\ Cardinality(CbFailed) = 1
    /\ Len(cbOut.results) = Len(CkTargets) - 1
    /\ cbOut.results[1].listed # <<>>

\* ------------------------------------------------------------------------
\* C6 as claimed: a lookup of a triple made less than the TTL after a
\* completed network lookup of the same triple makes no network call and
\* returns the classification that lookup stored.
\* ------------------------------------------------------------------------
StartsNetworkCall(c) == rlpc[c] # "resolving" /\ rlpc'[c] = "resolving"
ReturnsFromCache == qResult'.cached
ReturnsStored == qResult'.stored

WithinTTL(k) == storedAt[k] >= 0 /\ now < storedAt[k] + CacheTTL

RepeatWithinTTLIsCached ==
    [][/\ \A c \in Callers : StartsNetworkCall(c) => ~WithinTTL(qKey'[c])
       /\ ReturnsFromCache => ReturnsStored]_vars

\* C6 as amended: the same, for a triple whose entry is still in the cache
\* (not evicted for capacity and not removed by clear_cache since); the
\* classification returned is that of the most recently completed network
\* lookup of the triple.
EntryPresent(k) == \E i \in DOMAIN cache : cache[i].key = k[1] \o ":" \o k[2] \o ":" \o k[3]

RepeatWhileCachedIsServed ==
    [][/\ \A c \in Callers :
            StartsNetworkCall(c) => ~(WithinTTL(qKey'[c]) /\ EntryPresent(qKey'[c]))
       /\ ReturnsFromCache => ReturnsStored]_vars

\* a lookup has been answered from the cache with a timeout stored earlier
RepeatWhileCachedWitness ==
    /\ qResult.cached
    /\ qResult.status = "timeout"
    /\ \E k \in QKeys : lastOutcome[k].status = "timeout" /\ storedAt[k] < now

\* ------------------------------------------------------------------------
\* C2: a call of run_monitoring made while a run is in progress is rejected
\* in that very step; it creates no run row, changes no stored result or
\* alert, leaves the run in progress where it is and the guard set.
\* ------------------------------------------------------------------------
CallWhileRunning == isRunning /\ mCalls' = mCalls + 1

SecondCallRejected ==
    [][CallWhileRunning =>
          /\ mLast' = "rejected"
          /\ isRunning'
          /\ UNCHANGED <<runs, results, alerts, mpc, mRun>>]_vars

\* a call has been rejected while the first run awaits its checks
SecondCallRejectedWitness ==
    /\ mLast = "rejected"
    /\ isRunning
    /\ mpc = "checking"
    /\ Len(runs) = 1
    /\ runs[1].status = "running"

\* ------------------------------------------------------------------------
\* C3: at most one row of monitor_runs has status "running".
\* ------------------------------------------------------------------------
RunningRuns == {i \in DOMAIN runs : runs[i].status = "running"}

PairCheckStatus(p) ==
    LET o == lastCheck.a[p]
    IN  CASE o.kind = "answer" -> ExpectedZoneStatus(p[2], o.records)
          [] o.kind \in {"NXDOMAIN", "NoAnswer"} -> "not_listed"
          [] o.kind \in {"Timeout", "DNSException"} -> "error"
          [] OTHER -> "raised"
CheckedPairs ==
    {p \in MonPairs : InSeq(p[1], lastCheck.targets) /\ InSeq(p[2], lastCheck.zones)}
AlertedPairs ==
    {<<alerts[i].target_id, alerts[i].zone>> :
        i \in {j \in DOMAIN alerts : alerts[j].run = lastCheck.run}}

AlertIffStatusChanges ==
    lastCheck.run # 0 =>
        \A p \in CheckedPairs :
            p \in AlertedPairs <=>
                /\ PairCheckStatus(p) \in {"listed", "blocked"}
                /\ PairCheckStatus(p) # lastCheck.previous_statuses[p]

\* ------------------------------------------------------------------------
\* C5: check_results holds at most one row per (target, zone) pair.
\* ------------------------------------------------------------------------
OneRowPerPair ==
    \A i, j \in DOMAIN results :
        (results[i].target_id = results[j].target_id /\ results[i].zone = results[j].zone)
            => i = j

\* a row that a first run inserted (it alerted for the pair) has been
\* updated by a later run
OneRowPerPairWitness ==
    \E i \in DOMAIN results, k \in DOMAIN alerts :
        /\ alerts[k].target_id = results[i].target_id
        /\ alerts[k].zone = results[i].zone
        /\ alerts[k].run < results[i].run_id
        /\ results[i].status # alerts[k].new_status

\* ------------------------------------------------------------------------
\* C11: in the summary of check_multiple, total_ips is the number of input
\* identifiers; listed_ips and blocked_ips count the identifiers with at
\* least one listed, respectively blocked, zone; error_ips counts the
\* identifiers whose check failed and those with an error zone and neither
\* a listed nor a blocked one.
\* ------------------------------------------------------------------------
CbReturned == {i \in DOMAIN CkTargets : i \notin CbFailed}
CbHas(i, status) ==
    \E j \in DOMAIN ZoneList : CbZoneResults(CkTargets[i])[j].status = status

SummaryCounts ==
    cbOut # BatchNotCalled =>
        /\ cbOut.summary.total_ips = NumCheckTargets
        /\ cbOut.summary.listed_ips =
              Cardinality({i \in CbReturned : CbHas(i, "listed")})
        /\ cbOut.summary.blocked_ips =
              Cardinality({i \in CbReturned : CbHas(i, "blocked")})
        /\ cbOut.summary.error_ips =
              Cardinality(CbFailed)
              + Cardinality({i \in CbReturned : CbHas(i, "error")
                                /\ ~CbHas(i, "listed") /\ ~CbHas(i, "blocked")})

\* a batch has returned in which one identifier has a listed and an error
\* zone and is the only one counted as listed, and none counts as error
SummaryCountsWitness ==
    /\ cbOut # BatchNotCalled
    /\ \E i \in CbReturned : CbHas(i, "listed") /\ CbHas(i, "error")
    /\ cbOut.summary.listed_ips = 1
    /\ cbOut.summary.error_ips = 0

\* ------------------------------------------------------------------------
\* C12: when a run starts its checks, its snapshot holds, for every pair in
\* scope, the status stored at that moment; nothing changes the snapshot
\* or the stored rows while the checks run; and when the results are
\* processed, a pair saved as listed or blocked gets an alert exactly when
\* that status differs from the snapshot, with the snapshot's status as
\* old status.
\* ------------------------------------------------------------------------
StoredStatus(rows, p) ==
    IF \E i \in DOMAIN rows : rows[i].target_id = p[1] /\ rows[i].zone = p[2]
    THEN rows[CHOOSE i \in DOMAIN rows :
                 rows[i].target_id = p[1] /\ rows[i].zone = p[2]].status
    ELSE None
ChecksStart == mpc # "checking" /\ mpc' = "checking"
ChecksEnd == mpc = "checking" /\ mpc' # "checking"
CreatedAlerts == {k \in DOMAIN alerts' : k > Len(alerts)}

SnapshotBeforeChecks ==
    [][/\ ChecksStart =>
            \A p \in MonPairs :
                (InSeq(p[1], mRun'.targets) /\ InSeq(p[2], mRun'.zones)) =>
                    mRun'.previous_statuses[p] = StoredStatus(results, p)
       /\ (mpc = "checking" /\ mpc' = "checking") => UNCHANGED <<mRun, results, alerts>>
       /\ ChecksEnd =>
            /\ \A k \in CreatedAlerts :
                  alerts'[k].old_status =
                      mRun.previous_statuses[<<alerts'[k].target_id, alerts'[k].zone>>]
            /\ \A i \in DOMAIN results' :
                  (results'[i].run_id = mRun.id
                        /\ results'[i].status \in {"listed", "blocked"}) =>
                     ((\E k \in CreatedAlerts :
                            /\ alerts'[k].target_id = results'[i].target_id
                            /\ alerts'[k].zone = results'[i].zone
                            /\ alerts'[k].new_status = results'[i].status)
                       <=> results'[i].status #
                              mRun.previous_statuses[<<results'[i].target_id,
                                                       results'[i].zone>>])]_vars

\* a run has alerted for a pair whose stored status it changed: the old
\* status of the alert is the one stored before the run, the row holds the
\* new one
SnapshotBeforeChecksWitness ==
    \E k \in DOMAIN alerts, i \in DOMAIN results :
        /\ alerts[k].target_id = results[i].target_id
        /\ alerts[k].zone = results[i].zone
        /\ alerts[k].run = results[i].run_id
        /\ alerts[k].old_status \in {"listed", "blocked", "error"}
        /\ alerts[k].new_status = results[i].status

\* ------------------------------------------------------------------------
\* C13: a step in which run_monitoring raises out of its try statement
\* (a row becomes failed, or the call ends with the exception) leaves the
\* run's row failed with an error message, the exception with the caller,
\* and the guard released.
\* ------------------------------------------------------------------------
RowFails ==
    \E id \in DOMAIN runs' :
        /\ runs'[id].status = "failed"
        /\ id \notin DOMAIN runs \/ runs[id].status # "failed"
CallRaises == mLast' = "failed" /\ (mpc = "checking" \/ mCalls' # mCalls)
RaisedRun == IF isRunning THEN mRun.id ELSE Len(runs')

RunFailureRecorded ==
    [][(RowFails \/ CallRaises) =>
          /\ RaisedRun \in DOMAIN runs'
          /\ runs'[RaisedRun].status = "failed"
          /\ runs'[RaisedRun].error_message # None
          /\ mLast' = "failed"
          /\ ~isRunning'
          /\ mpc' = "idle"]_vars

\* a run has failed after it saved a result, and the next call was let in
RunFailureRecordedWitness ==
    \E id \in DOMAIN runs :
        /\ runs[id].status = "failed"
        /\ \E i \in DOMAIN results : results[i].run_id = id
        /\ id < Len(runs)
        /\ runs[Len(runs)].triggered_by = "scheduler"

\* ------------------------------------------------------------------------
\* C14: when a run that passed the mutual-exclusion check ends (the guard
\* is released, or the call returns before it awaited), _send_webhooks has
\* been called for its row exactly once, whether it completed or failed.
\* ------------------------------------------------------------------------
RunEnds ==
    \/ isRunning /\ ~isRunning'
    \/ ~isRunning /\ ~isRunning' /\ mCalls' # mCalls
EndedRun == IF isRunning THEN mRun.id ELSE Len(runs')

DispatchedOncePerRun ==
    [][RunEnds => runs'[EndedRun].dispatched = 1]_vars

\* ------------------------------------------------------------------------
\* C15: a run row is finalized once: a final status is committed for it at
\* most once, and a row that is completed or failed keeps its status.
\* ------------------------------------------------------------------------
FinalizedOnce ==
    \A id \in DOMAIN runs :
        /\ Len(runs[id].committed) <= 1
        /\ runs[id].status # "running" => runs[id].committed = <<runs[id].status>>

\* ------------------------------------------------------------------------
\* C16: a dispatch makes one outbound call and marks every alert of its
\* payload alike: all sent when the response is a success, all failed with
\* the error recorded otherwise; alerts outside the payload are untouched.
\* ------------------------------------------------------------------------
DispatchEnds == mpc = "posting" /\ mpc' # "posting"
LastPost == runs'[mRun.id].posts[Len(runs'[mRun.id].posts)]

JustCompleted ==
    /\ lastCheck.run # 0
    /\ lastCheck.run = Len(runs)
    /\ runs[lastCheck.run].status = "completed"

StoredStatusIsObserved ==
    JustCompleted =>
        \A p \in CheckedPairs :
            StoredStatus(results, p) # None => StoredStatus(results, p) = PairCheckStatus(p)

\* the special case the claim names: a pair observed not_listed is not
\* stored as listed
NotListedNotStoredListed ==
    JustCompleted =>
        \A p \in CheckedPairs :
            PairCheckStatus(p) = "not_listed" => StoredStatus(results, p) # "listed"

\* ------------------------------------------------------------------------
\* C18: right after a completed run, every error result the run was handed
\* (a lookup that timed out, for an identifier whose result was returned)
\* is the pair's stored row, with status error and the error text, no alert
\* of the run is about the pair, and the run's error_count counts them.
\* ------------------------------------------------------------------------
ReturnedPairs ==
    {p \in CheckedPairs :
        \A q \in CheckedPairs : q[1] = p[1] => PairCheckStatus(q) # "raised"}
ErrorPairs == {p \in ReturnedPairs : PairCheckStatus(p) = "error"}
ErrorText(o) == IF o.kind = "Timeout" THEN "timeout" ELSE "error"

PostStarts == mpc # "posting" /\ mpc' = "posting"

NoAlertSentTwice ==
    [][/\ PostStarts =>
             \A i \in mRun'.alerts : /\ alerts'[i].webhook_status = None
                                     /\ alerts'[i].run = mRun'.id
       /\ \A i \in DOMAIN alerts :
             alerts[i].webhook_status # None =>
                 /\ i \in DOMAIN alerts'
                 /\ alerts'[i].webhook_status = alerts[i].webhook_status
                 /\ alerts'[i].webhook_sent = alerts[i].webhook_sent]_vars

\* an alert's delivery failed, and a later run has made its own outbound call
NoAlertSentTwiceWitness ==
    \E k \in DOMAIN alerts, id \in DOMAIN runs :
        /\ alerts[k].webhook_status = "failed"
        /\ alerts[k].run < id
        /\ runs[id].posts # <<>>

\* ------------------------------------------------------------------------
\* C19: under a fair event loop every call of acquire returns: a caller
\* that queues for the lock or sleeps is eventually back with its caller,
\* and acquire has no step that rejects.
\* ------------------------------------------------------------------------
AcquireReturns ==
    \A c \in Callers : (rlpc[c] \in {"waitlock", "sleeping"}) ~> (rlpc[c] = "idle")

\* one caller sleeps with the lock held while another queues for it
AcquireReturnsWitness ==
    \E c, d \in Callers :
        /\ rlpc[c] = "sleeping" /\ now < rlWake
        /\ rlpc[d] = "waitlock"

\* ------------------------------------------------------------------------
\* C21: the cache never holds more than CacheMaxSize entries, and a lookup
\* that ends with an outcome _query_dns stores leaves that outcome in the
\* cache as its newest entry, full cache or not.
\* ------------------------------------------------------------------------
StoresOutcome(c) == rlpc[c] = "resolving" /\ rlpc'[c] = "idle" /\ ~qResult'.raised

CacheStaysBounded ==
    [][/\ Len(cache) <= CacheMaxSize
       /\ Len(cache') <= CacheMaxSize
       /\ \A c \in Callers :
             StoresOutcome(c) =>
                 /\ cache' # <<>>
                 /\ cache'[Len(cache')].key = MakeCacheKey(qKey[c])
                 /\ cache'[Len(cache')].value.status = qResult'.status
                 /\ cache'[Len(cache')].value.records = qResult'.records]_vars

\* the cache is full and a triple stored within the TTL is no longer in it:
\* the set of another triple has evicted it
CacheStaysBoundedWitness ==
    /\ Len(cache) = CacheMaxSize
    /\ \E k \in QKeys :
          /\ storedAt[k] # -1
          /\ ~CacheHas(cache, MakeCacheKey(k), now)

\* ------------------------------------------------------------------------
\* C22: what a lookup returns from the cache is the value of an entry whose
\* time is not up; a lookup that reaches the cache check for a triple whose
\* entry has expired (or is absent) starts a network call; and the outcome
\* of a network call is stored with a full TTL ahead of it.
\* ------------------------------------------------------------------------
LiveEntries == {i \in DOMAIN cache : now < cache[i].expires}
Expired(k) == \A i \in LiveEntries : cache[i].key # MakeCacheKey(k)
Delayed(c) == rlpc[c] \in {"waitlock", "sleeping"}
PassesCacheCheck(c) == Delayed(c) /\ rlpc'[c] \in {"idle", "resolving"}
ReturnsCached ==
    /\ qResult'.cached
    /\ \/ rlCalls' # rlCalls /\ rlpc' = rlpc
       \/ \E c \in Callers : Delayed(c) /\ rlpc'[c] = "idle"

ExpiredNeverServed ==
    [][/\ ReturnsCached =>
             \E i \in LiveEntries : /\ cache[i].value.status = qResult'.status
                                    /\ cache[i].value.records = qResult'.records
       /\ \A c \in Callers :
             /\ (PassesCacheCheck(c) /\ Expired(qKey[c])) => rlpc'[c] = "resolving"
             /\ (PassesCacheCheck(c) /\ rlpc'[c] = "idle") =>
                    \E i \in LiveEntries : /\ cache[i].key = MakeCacheKey(qKey[c])
                                           /\ cache[i].value.status = qResult'.status
             /\ StoresOutcome(c) =>
                    /\ cache' # <<>>
                    /\ cache'[Len(cache')].key = MakeCacheKey(qKey[c])
                    /\ cache'[Len(cache')].expires = now + CacheTTL
                    /\ \A i \in DOMAIN cache' :
                          cache'[i].key = MakeCacheKey(qKey[c]) => i = Len(cache')]_vars

\* a network call is under way for a triple whose expired entry is still in
\* the cache
ExpiredNeverServedWitness ==
    \E c \in Callers, i \in DOMAIN cache :
        /\ rlpc[c] = "resolving"
        /\ cache[i].key = MakeCacheKey(qKey[c])
        /\ now >= cache[i].expires

\* ------------------------------------------------------------------------
\* C23: the lookups of the check operation write the limiter and the cache
\* only: no step of theirs changes a check_results, monitor_runs or alerts
\* row or the guard of the monitoring service.
\* ------------------------------------------------------------------------
CheckWritesNoRecords ==
    [][/\ UNCHANGED <<results, runs, alerts, isRunning>>
       /\ UNCHANGED <<mpc, mRun, bgTasks, webhookUrl>>]_vars

\* lookups have filled a limiter window and the cache, one of them has
\* returned its outcome, and no record exists
CheckWritesNoRecordsWitness ==
    /\ cache # <<>>
    /\ \E z \in Zones : requests[z] # <<>>
    /\ qResult.status # "none"
    /\ results = <<>> /\ runs = <<>> /\ alerts = <<>> /\ ~isRunning

\* ------------------------------------------------------------------------
\* C24: at every instant each identifier has at most as many zone checks
\* inside check_zone as the concurrency limit its check_target was given.
\* ------------------------------------------------------------------------
ZoneChecksBounded ==
    \A t \in PoolTargets : tLimit[t] # 0 => Cardinality(InFlight(t)) <= tLimit[t]

\* an identifier has as many zone checks in flight as its limit allows and
\* another one waits for the semaphore
ZoneChecksBoundedWitness ==
    \E t \in PoolTargets :
        /\ tLimit[t] # 0
        /\ Cardinality(InFlight(t)) = tLimit[t]
        /\ \E z \in Zones : zpc[<<t, z>>] = "queued"

\* ------------------------------------------------------------------------
\* C25: at every instant at most as many identifiers are inside
\* check_target as the concurrency limit check_multiple was given.
\* ------------------------------------------------------------------------
TargetChecksBounded ==
    pOuter # 0 => Cardinality(Checking) <= pOuter

\* as many identifiers are being checked as the limit allows and another
\* one waits for the semaphore
TargetChecksBoundedWitness ==
    /\ pOuter # 0
    /\ Cardinality(Checking) = pOuter
    /\ \E t \in PoolTargets : tpc[t] = "queued"

\* ------------------------------------------------------------------------
\* C26: the bound on zone checks per identifier does not grow when the
\* bound on identifiers is raised: of two check_target calls, the one made
\* under the larger outer bound has no larger inner bound.
\* ------------------------------------------------------------------------
InnerBoundIndependent ==
    \A p, q \in limits : p[1] < q[1] => q[2] <= p[2]

\* ------------------------------------------------------------------------
\* C27: a caller whose zone has room is not kept waiting by a caller that
\* waits for another zone's window: nobody queues for the lock, for a zone
\* below its limit, while the lock is held by a sleeper of another zone.
\* ------------------------------------------------------------------------
OtherZoneNotDelayed ==
    \A c, d \in Callers :
        (rlpc[c] = "sleeping" /\ rlpc[d] = "waitlock" /\ rlZone[d] # rlZone[c])
            => MustSleep(rlZone[d])

\* ------------------------------------------------------------------------
\* C28: when acquire returns after a wait, the zone's list holds at most
\* MaxRequests timestamps and its newest one is not earlier than the moment
\* of the return.
\* ------------------------------------------------------------------------
ReturnsAfterWait(c) == rlpc[c] = "sleeping" /\ rlpc'[c] # "sleeping"

GrantRecordedWhenMade ==
    [][\A c \in Callers :
          ReturnsAfterWait(c) =>
              LET ts == requests'[rlZone[c]]
              IN  /\ Len(ts) <= MaxRequests
                  /\ ts # <<>>
                  /\ ts[Len(ts)] >= now]_vars

\* ------------------------------------------------------------------------
\* C29: in every identifier result check_multiple returns, each requested
\* zone is in exactly one of listed, blocked, errors or the not_listed
\* count, and the status of each of its zone checks is one of listed,
\* not_listed, blocked, error.
\* ------------------------------------------------------------------------
BucketZones(bucket) == {bucket[i].zone : i \in DOMAIN bucket}

ZonesAccountedOnce ==
    cbOut # BatchNotCalled =>
        \A k \in DOMAIN cbOut.results :
            LET r == cbOut.results[k]
                L == BucketZones(r.listed)
                B == BucketZones(r.blocked)
                E == BucketZones(r.errors)
            IN  /\ Len(r.listed) + Len(r.blocked) + Len(r.errors)
                       + r.not_listed_zones_count = Len(ZoneList)
                /\ Cardinality(L) = Len(r.listed)
                /\ Cardinality(B) = Len(r.blocked)
                /\ Cardinality(E) = Len(r.errors)
                /\ L \cap B = {} /\ L \cap E = {} /\ B \cap E = {}
                /\ (L \cup B \cup E) \subseteq Zones
                /\ r.not_listed_zones_count = Cardinality(Zones \ (L \cup B \cup E))
                /\ \A j \in DOMAIN ZoneList :
                      /\ CbZoneResults(r.target)[j].status
                             \in {"listed", "not_listed", "blocked", "error"}
                      /\ CbZoneResults(r.target)[j].status = "listed" <=> ZoneList[j] \in L
                      /\ CbZoneResults(r.target)[j].status = "blocked" <=> ZoneList[j] \in B
                      /\ CbZoneResults(r.target)[j].status = "error" <=> ZoneList[j] \in E

\* one returned result has a blocked zone and an error zone, another a
\* listed zone and a zone that is not listed
ZonesAccountedOnceWitness ==
    /\ cbOut # BatchNotCalled
    /\ \E k \in DOMAIN cbOut.results :
          cbOut.results[k].blocked # <<>> /\ cbOut.results[k].errors # <<>>
    /\ \E k \in DOMAIN cbOut.results :
          cbOut.results[k].listed # <<>> /\ cbOut.results[k].not_listed_zones_count = 1

\* ------------------------------------------------------------------------
\* C30: every alert in the database has new status listed or blocked, an
\* old status that is absent or differs from the new status, and the type
\* newly_listed for listed and blocked for blocked; no alert has new status
\* not_listed or error.
\* ------------------------------------------------------------------------
AlertsWellFormed ==
    \A i \in DOMAIN alerts :
        /\ alerts[i].new_status \in {"listed", "blocked"}
        /\ alerts[i].old_status # alerts[i].new_status
        /\ alerts[i].new_status = "listed" => alerts[i].alert_type = "newly_listed"
        /\ alerts[i].new_status = "blocked" => alerts[i].alert_type = "blocked"

\* a first listing with no old status, then a blocked alert whose old status
\* is listed, while the latest run also stored a status that alerts nothing
AlertsWellFormedWitness ==
    /\ \E i \in DOMAIN alerts :
          alerts[i].alert_type = "newly_listed" /\ alerts[i].old_status = None
    /\ \E i \in DOMAIN alerts :
          alerts[i].alert_type = "blocked" /\ alerts[i].old_status = "listed"
    /\ \E k \in DOMAIN results : results[k].status \in {"not_listed", "error"}

\* ------------------------------------------------------------------------
\* C31: with a webhook destination configured, every alert is marked sent or
\* failed by a dispatch, whether the run that created it completed or
\* failed: once that run is over, the alert is marked.  (A dispatch selects
\* only the alerts created since its own run started, so the dispatch of a
\* later run marks none of them.)
\* ------------------------------------------------------------------------
Marked(i) == alerts[i].webhook_status # None
RunIsOver(r) == r # mRun.id

AlertsMarkedByDispatch ==
    \A i \in DOMAIN alerts : RunIsOver(alerts[i].run) => Marked(i)

\* an alert left unmarked by its run is not marked later
UnmarkedStaysUnmarked ==
    [][\A i \in DOMAIN alerts :
          (RunIsOver(alerts[i].run) /\ ~Marked(i)) => alerts'[i].webhook_status = None]_vars

\* ------------------------------------------------------------------------
\* C34: the guard is always released: whatever step of a run_monitoring call
\* that passed the guard check fails, creation of the run row included, the
\* guard is free again once the call is over, so the service does not reject
\* every later call.
\* ------------------------------------------------------------------------
\* no call of run_monitoring is in progress
NoCallInProgress == mpc = "idle"

GuardAlwaysReleased == NoCallInProgress => ~isRunning

\* ------------------------------------------------------------------------
\* C32: check_zone makes the TXT lookup exactly when it was requested and the
\* primary lookup classifies the pair as listed; never for a pair classified
\* blocked, not_listed or error.  The checks of a monitoring run make none.
\* ------------------------------------------------------------------------
PrimaryStatus(zone, o) ==
    CASE o.kind = "answer" -> ExpectedZoneStatus(zone, o.records)
      [] o.kind \in {"NXDOMAIN", "NoAnswer"} -> "not_listed"
      [] o.kind \in {"Timeout", "DNSException"} -> "error"
      [] OTHER -> "raised"

MonitoringAsksNoTxt == lastCheck.txt_asked = {}

TxtFailureKeepsListed ==
    (czOut.txt_asked /\ czIn.txt.kind # "answer") =>
        /\ ~czOut.raised
        /\ czOut.status = "listed"
        /\ czOut.a_records = czIn.a.records
        /\ czOut.txt_records = <<>>

\* ------------------------------------------------------------------------
\* C35: when a run stored listed for a pair, the next run observed the pair
\* not_listed, and the run after that observes it listed again, this third
\* run creates a newly_listed alert for the pair.
\* ------------------------------------------------------------------------
\* the step at which the checks of the run in progress return and are saved
ChecksComplete == mpc = "checking" /\ lastCheck'.run = mRun.id

\* the run two before the one in progress stored listed for p, and the run
\* before it, the last to complete its checks, had p in scope and not listed
ListedThenNotListed(p) ==
    /\ lastCheck.run = mRun.id - 1
    /\ p \in CheckedPairs
    /\ PairCheckStatus(p) = "not_listed"
    /\ \E k \in DOMAIN results :
          /\ results[k].target_id = p[1] /\ results[k].zone = p[2]
          /\ results[k].status = "listed" /\ results[k].run_id = mRun.id - 2

RelistingAlerts ==
    [][\A p \in MonPairs :
          (/\ ChecksComplete
           /\ ListedThenNotListed(p)
           /\ InSeq(p[1], mRun.targets) /\ InSeq(p[2], mRun.zones)
           /\ PrimaryStatus(p[2], lastCheck'.a[p]) = "listed")
          => \E i \in DOMAIN alerts' :
                /\ i \notin DOMAIN alerts
                /\ alerts'[i].alert_type = "newly_listed"
                /\ alerts'[i].target_id = p[1] /\ alerts'[i].zone = p[2]]_vars

\* ------------------------------------------------------------------------
\* C36: of the _query_dns calls in flight at the same time for one
\* (identifier, zone, record-kind) triple, at most one is in the network
\* call.
\* ------------------------------------------------------------------------
InNetworkCall(c) == rlpc[c] = "resolving"

OneNetworkCallPerTriple ==
    \A c1 \in Callers, c2 \in Callers :
        (c1 # c2 /\ InNetworkCall(c1) /\ InNetworkCall(c2)) => qKey[c1] # qKey[c2]

\* ------------------------------------------------------------------------
\* C38: a _query_dns call answered from the cache records nothing in a
\* zone's rate-limiter window and has not been delayed by the rate limiter.
\* ------------------------------------------------------------------------
ReturnsCachedAfterDelay ==
    qResult'.cached /\ \E c \in Callers : Delayed(c) /\ rlpc'[c] = "idle"

CachedLookupsBypassLimiter ==
    [][ReturnsCached => (requests' = requests /\ ~ReturnsCachedAfterDelay)]_vars

\* ------------------------------------------------------------------------
\* C37: a monitoring run classifies every pair in its scope from a network
\* lookup made during that run: no pair's outcome is taken from the cache.
\* ------------------------------------------------------------------------
RunsLookUpAfresh == lastCheck.from_cache = {}

\* ------------------------------------------------------------------------
\* C39: a completed run has total_checks = listed_count + blocked_count +
\* error_count; when it has just completed, each count is the number of rows
\* the run upserted with that status, which is the number of pairs of its
\* returned identifiers observed with that status.  Pairs observed not_listed
\* and the pairs of an identifier whose check failed are in no count.
\* ------------------------------------------------------------------------
RowsOfRun(r, status) ==
    {k \in DOMAIN results : results[k].run_id = r /\ results[k].status = status}
ObservedPairs(status) == {p \in ReturnedPairs : PairCheckStatus(p) = status}

RunCountsMatchRows ==
    /\ \A r \in DOMAIN runs :
          runs[r].status = "completed" =>
              /\ runs[r].total_checks =
                     runs[r].listed_count + runs[r].blocked_count + runs[r].error_count
              /\ Cardinality(RowsOfRun(r, "listed")) <= runs[r].listed_count
              /\ Cardinality(RowsOfRun(r, "blocked")) <= runs[r].blocked_count
              /\ Cardinality(RowsOfRun(r, "error")) <= runs[r].error_count
    /\ JustCompleted =>
          LET run == runs[lastCheck.run]
          IN  /\ run.listed_count = Cardinality(RowsOfRun(lastCheck.run, "listed"))
              /\ run.blocked_count = Cardinality(RowsOfRun(lastCheck.run, "blocked"))
              /\ run.error_count = Cardinality(RowsOfRun(lastCheck.run, "error"))
              /\ run.listed_count = Cardinality(ObservedPairs("listed"))
              /\ run.blocked_count = Cardinality(ObservedPairs("blocked"))
              /\ run.error_count = Cardinality(ObservedPairs("error"))

\* the second run has just completed with one pair blocked and one in error,
\* updating the rows of the first
RunCountsMatchRowsWitness ==
    /\ JustCompleted
    /\ lastCheck.run > 1
    /\ runs[lastCheck.run].blocked_count = 1
    /\ runs[lastCheck.run].error_count = 1
    /\ runs[lastCheck.run].total_checks = 2
    /\ \E r \in DOMAIN runs : r < lastCheck.run /\ runs[r].status = "completed"
                              /\ runs[r].total_checks > 0


====
